---- MODULE Spec2Model ----
(***************************************************************************)
(* The hummock version manager (src/meta/src/hummock/manager/mod.rs) and   *)
(* the compaction scheduler (src/meta/src/hummock/compaction_scheduler.rs) *)
(* as a state machine.  The in-memory state of HummockManager              *)
(* (Versioning and Compaction), the meta store it persists to, the         *)
(* cluster membership it consults and the scheduler's send_task loop are   *)
(* the variables; every public operation is one action.                    *)
(***************************************************************************)
EXTENDS Integers, Sequences, FiniteSets, TLC

\* ------------------------------------------------------------------ bounds
MaxVersionId == 4      \* no call that makes a version starts from this id on
MaxCommitSsts == 3     \* a commit_epoch brings at most this many SSTs
MaxTaskId == 2         \* the task id generator hands out 1..MaxTaskId

\* ------------------------------------------------------- program constants
FIRST_VERSION_ID == 1
INVALID_VERSION_ID == 0
INVALID_EPOCH == 0
META_NODE_ID == 0

\* ---------------------------------------------------------------- universe
Contexts == {1, 2}                 \* worker node ids (HummockContextId)
Pinners == {1}                     \* the workers that pin versions and snapshots
Groups == {1, 2}                   \* compaction groups
MaxLevel == 2                      \* compaction_config.max_level
Keys == {1, 2}                     \* user keys
NoTask == [task_id |-> 0]
LeaderInfo == "self"               \* env.get_leader_info()

\* ------------------------------------------------------------- sequences
Range(s) == {s[i] : i \in DOMAIN s}

RECURSIVE SeqFilter(_, _)
SeqFilter(s, keep) ==
  IF s = <<>> THEN <<>>
  ELSE IF Head(s) \in keep THEN <<Head(s)>> \o SeqFilter(Tail(s), keep)
       ELSE SeqFilter(Tail(s), keep)

Min(S) == CHOOSE x \in S : \A y \in S : x <= y
Max(S) == CHOOSE x \in S : \A y \in S : x >= y

\* ---------------------------------------------------------------- SSTs
SstInfo(id, l, r) == [id |-> id, l |-> l, r |-> r]
SstIds(infos) == {infos[i].id : i \in DOMAIN infos}

\* Vec::sort_by on key_range.left: a stable insertion sort.
RECURSIVE InsertByLeft(_, _)
InsertByLeft(sorted, sst) ==
  IF sorted = <<>> THEN <<sst>>
  ELSE IF sst.l < Head(sorted).l THEN <<sst>> \o sorted
       ELSE <<Head(sorted)>> \o InsertByLeft(Tail(sorted), sst)

RECURSIVE SortByLeft(_)
SortByLeft(infos) ==
  IF infos = <<>> THEN <<>>
  ELSE InsertByLeft(SortByLeft(SubSeq(infos, 1, Len(infos) - 1)), infos[Len(infos)])

\* SSTs of `infos` whose id is not in `ids`, order kept.
RECURSIVE LevelDeleteSsts(_, _)
LevelDeleteSsts(infos, ids) ==
  IF infos = <<>> THEN <<>>
  ELSE IF Head(infos).id \in ids THEN LevelDeleteSsts(Tail(infos), ids)
       ELSE <<Head(infos)>> \o LevelDeleteSsts(Tail(infos), ids)

LevelInsertSsts(infos, inserted) == SortByLeft(infos \o inserted)

\* ------------------------------------------------------------- versions
EmptyLevels == [l0 |-> <<>>, levels |-> [i \in 1..MaxLevel |-> <<>>]]

InitVersion ==
  [id |-> FIRST_VERSION_ID,
   levels |-> [g \in Groups |-> EmptyLevels],
   max_committed_epoch |-> INVALID_EPOCH,
   safe_epoch |-> INVALID_EPOCH]

SubLevel(id, infos) == [sub_level_id |-> id, table_infos |-> infos]

RECURSIVE SubLevelsSsts(_)
SubLevelsSsts(subs) ==
  IF subs = <<>> THEN <<>>
  ELSE Head(subs).table_infos \o SubLevelsSsts(Tail(subs))

\* All SSTs one group's levels reference, L0 first.
RECURSIVE LevelsSstsFrom(_, _)
LevelsSstsFrom(lv, i) ==
  IF i > MaxLevel THEN <<>> ELSE lv.levels[i] \o LevelsSstsFrom(lv, i + 1)

GroupSsts(lv) == SubLevelsSsts(lv.l0) \o LevelsSstsFrom(lv, 1)

VersionSstIds(v) == UNION {SstIds(GroupSsts(v.levels[g])) : g \in DOMAIN v.levels}

\* --------------------------------------------------------------- deltas
LevelDelta(idx, sub_id, removed, inserted) ==
  [level_idx |-> idx, l0_sub_level_id |-> sub_id,
   removed_table_ids |-> removed, inserted_table_infos |-> inserted]

\* Levels::apply_compact_ssts: delete `ids` from the levels in `del_levels`,
\* insert `infos` into `ins_level` (an L0 insert goes into the sub-level
\* `ins_sub_id`), then drop the L0 sub-levels that became empty.
RECURSIVE DeleteFromSubLevels(_, _)
DeleteFromSubLevels(subs, ids) ==
  IF subs = <<>> THEN <<>>
  ELSE <<SubLevel(Head(subs).sub_level_id, LevelDeleteSsts(Head(subs).table_infos, ids))>>
       \o DeleteFromSubLevels(Tail(subs), ids)

RECURSIVE RetainNonEmpty(_)
RetainNonEmpty(subs) ==
  IF subs = <<>> THEN <<>>
  ELSE IF Head(subs).table_infos = <<>> THEN RetainNonEmpty(Tail(subs))
       ELSE <<Head(subs)>> \o RetainNonEmpty(Tail(subs))

RECURSIVE InsertIntoSubLevel(_, _, _)
InsertIntoSubLevel(subs, sub_id, infos) ==
  IF subs = <<>> THEN <<SubLevel(sub_id, infos)>>
  ELSE IF Head(subs).sub_level_id = sub_id
       THEN <<SubLevel(sub_id, LevelInsertSsts(Head(subs).table_infos, infos))>> \o Tail(subs)
       ELSE IF Head(subs).sub_level_id > sub_id
            THEN <<SubLevel(sub_id, infos)>> \o subs
            ELSE <<Head(subs)>> \o InsertIntoSubLevel(Tail(subs), sub_id, infos)

apply_compact_ssts(lv, del_levels, ids, ins_level, ins_sub_id, infos) ==
  LET l0d == IF 0 \in del_levels THEN DeleteFromSubLevels(lv.l0, ids) ELSE lv.l0
      lvd == [i \in 1..MaxLevel |->
                IF i \in del_levels THEN LevelDeleteSsts(lv.levels[i], ids)
                ELSE lv.levels[i]]
      l0i == IF infos # <<>> /\ ins_level = 0
             THEN InsertIntoSubLevel(l0d, ins_sub_id, infos) ELSE l0d
      lvi == [i \in 1..MaxLevel |->
                IF infos # <<>> /\ ins_level = i
                THEN LevelInsertSsts(lvd[i], infos) ELSE lvd[i]]
  IN [l0 |-> IF 0 \in del_levels THEN RetainNonEmpty(l0i) ELSE l0i,
      levels |-> lvi]

\* What one group's level deltas remove and insert.
RECURSIVE DeltaInserted(_)
DeltaInserted(lds) ==
  IF lds = <<>> THEN <<>>
  ELSE Head(lds).inserted_table_infos \o DeltaInserted(Tail(lds))

DeltaDeleteLevels(lds) ==
  {lds[i].level_idx : i \in {j \in DOMAIN lds : lds[j].removed_table_ids # <<>>}}

DeltaRemovedIds(lds) == UNION {Range(lds[i].removed_table_ids) : i \in DOMAIN lds}

DeltaInsertAt(lds) ==
  LET ins == {j \in DOMAIN lds : lds[j].inserted_table_infos # <<>>}
  IN IF ins = {} THEN LevelDelta(0, 0, <<>>, <<>>) ELSE lds[Max(ins)]

\* HummockVersionExt::apply_version_delta: fold one delta onto a version.
HummockVersion_apply_version_delta(v, delta) ==
  [id |-> delta.id,
   levels |-> [g \in DOMAIN v.levels |->
     IF g \notin DOMAIN delta.level_deltas THEN v.levels[g]
     ELSE LET lds == delta.level_deltas[g]
              at == DeltaInsertAt(lds)
          IN IF DeltaDeleteLevels(lds) # {}
             THEN apply_compact_ssts(v.levels[g], DeltaDeleteLevels(lds), DeltaRemovedIds(lds),
                                     at.level_idx, at.l0_sub_level_id, DeltaInserted(lds))
             ELSE IF DeltaInserted(lds) # <<>>
                  THEN [v.levels[g] EXCEPT !.l0 =
                          Append(@, SubLevel(at.l0_sub_level_id, DeltaInserted(lds)))]
                  ELSE v.levels[g]],
   max_committed_epoch |-> delta.max_committed_epoch,
   safe_epoch |-> delta.safe_epoch]

\* All SST ids a delta removes from the version.
DeltaAllRemoved(delta) ==
  UNION {DeltaRemovedIds(delta.level_deltas[g]) : g \in DOMAIN delta.level_deltas}

\* ----------------------------------------------------------- commit_epoch
\* itertools group_by: runs of consecutive (cg_id, sst) pairs with equal cg_id.
RECURSIVE GroupByCg(_)
GroupByCg(sstables) ==
  IF sstables = <<>> THEN <<>>
  ELSE LET rest == GroupByCg(Tail(sstables))
           cg == Head(sstables)[1]
           sst == Head(sstables)[2]
       IN IF rest # <<>> /\ rest[1].cg = cg
          THEN <<[cg |-> cg, ssts |-> <<sst>> \o rest[1].ssts]>> \o Tail(rest)
          ELSE <<[cg |-> cg, ssts |-> <<sst>>]>> \o rest

\* level_deltas of the new delta: one LevelDelta per run, in run order.
RECURSIVE CommitLevelDeltas(_, _, _)
CommitLevelDeltas(chunks, cg, epoch) ==
  IF chunks = <<>> THEN <<>>
  ELSE (IF Head(chunks).cg = cg
        THEN <<LevelDelta(0, epoch, <<>>, Head(chunks).ssts)>> ELSE <<>>)
       \o CommitLevelDeltas(Tail(chunks), cg, epoch)

\* A new version that keeps the id of the old one.
new_version_id_same(old_version) == old_version.id

\* let new_version_id = old_version.id + 1 (commit_epoch, the trivial move,
\* report_compact_task_impl).
new_version_id(old_version) == old_version.id + 1

CommitEpochDelta(old_version, epoch, sstables) ==
  LET chunks == GroupByCg(sstables)
  IN [id |-> new_version_id(old_version),
      prev_id |-> old_version.id,
      level_deltas |-> [g \in {chunks[i].cg : i \in DOMAIN chunks} |->
                          CommitLevelDeltas(chunks, g, epoch)],
      max_committed_epoch |-> epoch,
      safe_epoch |-> old_version.safe_epoch,
      trivial_move |-> FALSE]

\* The new in-memory version: one new overlapping sub-level per run.
RECURSIVE CommitPushSubLevels(_, _, _)
CommitPushSubLevels(levels, chunks, epoch) ==
  IF chunks = <<>> THEN levels
  ELSE CommitPushSubLevels(
         [levels EXCEPT ![Head(chunks).cg].l0 = Append(@, SubLevel(epoch, Head(chunks).ssts))],
         Tail(chunks), epoch)

CommitEpochVersion(old_version, epoch, sstables) ==
  [id |-> new_version_id(old_version),
   levels |-> CommitPushSubLevels(old_version.levels, GroupByCg(sstables), epoch),
   max_committed_epoch |-> epoch,
   safe_epoch |-> old_version.safe_epoch]

\* ------------------------------------------------------------ finite maps
Put(f, k, v) == [x \in (DOMAIN f) \cup {k} |-> IF x = k THEN v ELSE f[x]]
Del(f, k) == [x \in (DOMAIN f) \ {k} |-> f[x]]
EmptyMap == [x \in {} |-> 0]

\* ---------------------------------------------------------- compact tasks
InputLevel(idx, infos) == [level_idx |-> idx, table_infos |-> infos]

RECURSIVE InputSsts(_)
InputSsts(input_ssts) ==
  IF input_ssts = <<>> THEN <<>>
  ELSE Head(input_ssts).table_infos \o InputSsts(Tail(input_ssts))

TaskInputIds(task) == SstIds(InputSsts(task.input_ssts))

CompactTask(task_id, cg, input_ssts, target_level) ==
  [task_id |-> task_id, compaction_group_id |-> cg, input_ssts |-> input_ssts,
   target_level |-> target_level, target_sub_level_id |-> 0, watermark |-> 0,
   sorted_output_ssts |-> <<>>, task_status |-> FALSE]

\* SSTs of a level whose key range meets [lo, hi].
RECURSIVE Overlapping(_, _, _)
Overlapping(infos, lo, hi) ==
  IF infos = <<>> THEN <<>>
  ELSE IF Head(infos).l <= hi /\ Head(infos).r >= lo
       THEN <<Head(infos)>> \o Overlapping(Tail(infos), lo, hi)
       ELSE Overlapping(Tail(infos), lo, hi)

RECURSIVE SubLevelInputs(_)
SubLevelInputs(subs) ==
  IF subs = <<>> THEN <<>>
  ELSE <<InputLevel(0, Head(subs).table_infos)>> \o SubLevelInputs(Tail(subs))

\* CompactStatus: the pending tasks of one group, each with the SST ids its
\* level handlers hold reserved.
PendingSsts(status) == UNION {status[t] : t \in DOMAIN status}

\* The picker's candidates.  Base compaction takes the whole of L0 and the
\* SSTs of L1 its key span meets; leveled compaction takes one SST of level
\* i and the SSTs of level i+1 it meets.  No input may be reserved.
PickerCandidates(lv, status, task_id, cg) ==
  LET l0 == SubLevelsSsts(lv.l0)
      lo == Min({l0[i].l : i \in DOMAIN l0})
      hi == Max({l0[i].r : i \in DOMAIN l0})
      base == IF l0 = <<>> THEN {}
              ELSE {CompactTask(task_id, cg,
                      SubLevelInputs(lv.l0) \o <<InputLevel(1, Overlapping(lv.levels[1], lo, hi))>>, 1)}
      leveled == {CompactTask(task_id, cg,
                    <<InputLevel(i, <<lv.levels[i][k]>>),
                      InputLevel(i + 1, Overlapping(lv.levels[i + 1], lv.levels[i][k].l, lv.levels[i][k].r))>>,
                    i + 1) : <<i, k>> \in {p \in (1..(MaxLevel - 1)) \X (1..MaxVersionId) :
                                               p[2] <= Len(lv.levels[p[1]])}}
  IN {t \in base \cup leveled : TaskInputIds(t) \cap PendingSsts(status) = {}}

\* CompactStatus::get_compact_task marks the inputs of the picked task.
StatusAddTask(status, task) == Put(status, task.task_id, TaskInputIds(task))

\* CompactStatus::report_compact_task clears them, success or failure.
CompactStatus_report_compact_task(status, task) == Del(status, task.task_id)

\* CompactStatus::cancel_compaction_tasks_if.
cancel_compaction_tasks_if(status, drop) == [t \in (DOMAIN status) \ drop |-> status[t]]

is_trivial_move_task(task) ==
  /\ Len(task.input_ssts) = 2
  /\ task.input_ssts[1].level_idx # 0
  /\ task.input_ssts[1].level_idx # task.input_ssts[2].level_idx
  /\ Len(task.input_ssts[1].table_infos) = 1
  /\ task.input_ssts[2].table_infos = <<>>

\* CompactStatus::apply_compact_result: the new in-memory version.
apply_compact_result(task, v) ==
  [v EXCEPT
     !.safe_epoch = IF task.watermark > @ THEN task.watermark ELSE @,
     !.levels[task.compaction_group_id] =
        apply_compact_ssts(@, {task.input_ssts[i].level_idx : i \in DOMAIN task.input_ssts},
                           TaskInputIds(task), task.target_level,
                           task.target_sub_level_id, task.sorted_output_ssts)]

\* A delta that leaves out the removed_table_ids of the input levels.
TaskRemovalDeltasNone(input_ssts) == <<>>

\* manager/mod.rs apply_version_delta: the delta of a compaction result.
RECURSIVE TaskRemovalDeltas(_)
TaskRemovalDeltas(input_ssts) ==
  IF input_ssts = <<>> THEN <<>>
  ELSE LET level == Head(input_ssts)
       IN <<LevelDelta(level.level_idx, 0,
                       [i \in DOMAIN level.table_infos |-> level.table_infos[i].id], <<>>)>>
          \o TaskRemovalDeltas(Tail(input_ssts))

apply_version_delta(old_version, compact_task, trivial_move) ==
  [id |-> old_version.id + 1,
   prev_id |-> old_version.id,
   level_deltas |-> [g \in {compact_task.compaction_group_id} |->
      TaskRemovalDeltas(compact_task.input_ssts)
      \o <<LevelDelta(compact_task.target_level, compact_task.target_sub_level_id,
                      <<>>, compact_task.sorted_output_ssts)>>],
   max_committed_epoch |-> old_version.max_committed_epoch,
   safe_epoch |-> IF compact_task.watermark > old_version.safe_epoch
                  THEN compact_task.watermark ELSE old_version.safe_epoch,
   trivial_move |-> trivial_move]

\* =================================================================== state
VARIABLES
  \* Versioning
  current_version, checkpoint_version, hummock_version_deltas,
  pinned_versions, pinned_snapshots, ssts_to_delete,
  \* Compaction
  compaction_statuses, compact_task_assignment,
  \* HummockManager::max_committed_epoch (AtomicU64)
  max_committed_epoch,
  \* the meta store: what is persisted, and the leader key
  meta_store,
  \* cluster membership (check_context), the epoch each pin_snapshot call in
  \* flight has loaded from max_committed_epoch, and the id generators
  members, snapshot_reads, next_sst_id, next_task_id,
  \* CompactionRequestChannel, with the group the scheduler has received
  request_channel,
  \* S3StreamingUploader with its part uploads, and the bucket it writes to
  uploader, s3,
  \* SstableStore: its object store and its three caches
  sstable_store,
  \* compact_and_build_sst: its arguments and what it has added to the
  \* builder; Compactor::compact: its task, its split runners, its reports
  merge, compaction,
  \* LocalVersionManager: the cached pinned version and the calls in flight
  local_version,
  \* the compaction and versioning locks of HummockManager: who holds them, who waits, and where each call stands
  locks,
  \* a compute node that has subscribed to the version deltas: the id of its local version, and whether applying a delta has panicked
  compute_node,
  \* CompactionScheduler::pick_and_assign: where its loop stands
  sched,
  \* the compact tasks the compactors have received
  delivered,
  \* history: the SST ids of every version that has been current, and the
  \* last call with its result
  version_ssts, last

versioning_vars == <<current_version, checkpoint_version, hummock_version_deltas,
                     pinned_versions, pinned_snapshots, ssts_to_delete, max_committed_epoch>>
compaction_vars == <<compaction_statuses, compact_task_assignment>>
\* The components around the version manager.
component_vars == <<request_channel, uploader, s3, sstable_store, merge, compaction, local_version, locks, compute_node>>
not_channel_vars == <<uploader, s3, sstable_store, merge, compaction, local_version, locks, compute_node>>
not_upload_vars == <<request_channel, sstable_store, merge, compaction, local_version, locks, compute_node>>
not_store_vars == <<request_channel, uploader, s3, merge, compaction, local_version, locks, compute_node>>
not_compactor_vars == <<request_channel, uploader, s3, sstable_store, local_version, locks, compute_node>>
not_local_vars == <<request_channel, uploader, s3, sstable_store, merge, compaction, locks, compute_node>>
not_lock_vars == <<request_channel, uploader, s3, sstable_store, merge, compaction, local_version, compute_node>>
not_compute_vars == <<request_channel, uploader, s3, sstable_store, merge, compaction, local_version, locks>>
not_notified_vars == <<uploader, s3, sstable_store, merge, compaction, local_version, locks>>
env_vars == <<members, component_vars, snapshot_reads, next_sst_id, next_task_id, sched, delivered>>
\* The state of the version manager and of its callers.
manager_vars == <<versioning_vars, compaction_vars, meta_store, members, snapshot_reads,
                  next_sst_id, next_task_id, sched, delivered, version_ssts>>
vars == <<current_version, checkpoint_version, hummock_version_deltas,
          pinned_versions, pinned_snapshots, ssts_to_delete,
          compaction_statuses, compact_task_assignment, max_committed_epoch,
          meta_store, members, component_vars, snapshot_reads, next_sst_id, next_task_id, sched, delivered,
          version_ssts, last>>

NoCtx == 0 - 1                      \* Option::None of a context id
NoPinnedId == MaxVersionId + 2      \* HummockVersionId::MAX
\* sched.current_version is the version get_compact_task_impl cloned under the
\* versioning read lock; it is kept while a trivial move is under way.
NoVersionRead == [id |-> INVALID_VERSION_ID]
Idle == [pc |-> "idle", task |-> NoTask, compactor |-> NoCtx, moved |-> 0,
         current_version |-> NoVersionRead]
\* The errors of commit_trx.
TxnErrors == {"InvalidContext", "MetaStoreError"}

\* What the last call leaves behind: its name, result, caller and argument,
\* (for commit_epoch, the contexts of sst_to_context and the epoch),
\* or, when its transaction failed, the error and the number of transactions
\* the call had committed before (the loop of get_compact_task).  `prev` is
\* the result of the call before it when that was the same report; `out` is
\* what the call returned besides its result and what it sent.
Called(op, ret, ctx, arg) ==
  IF ret \in TxnErrors
  THEN [op |-> "txn", ret |-> ret, ctx |-> NoCtx,
        arg |-> IF op = "get_compact_task" THEN arg ELSE 0, prev |-> "-", out |-> <<>>]
  ELSE [op |-> op, ret |-> ret, ctx |-> ctx, arg |-> arg,
        prev |-> IF op = "report_compact_task" /\ last.op = op /\ last.ctx = ctx
                    /\ last.arg = arg
                 THEN last.ret ELSE "-",
        out |-> <<>>]

\* The same, for a call that returns a payload or sends notifications: `out`
\* holds them in the order they are produced.
CalledWith(op, ret, ctx, arg, out) ==
  IF ret = "Ok" \/ ret = "OkTrue" THEN [Called(op, ret, ctx, arg) EXCEPT !.out = out]
  ELSE Called(op, ret, ctx, arg)

\* The in-memory state check_state_consistency compares, with current_version.
MemState ==
  [current_version |-> current_version,
   checkpoint_version |-> checkpoint_version,
   hummock_version_deltas |-> hummock_version_deltas,
   pinned_versions |-> pinned_versions,
   pinned_snapshots |-> pinned_snapshots,
   compaction_statuses |-> compaction_statuses,
   compact_task_assignment |-> compact_task_assignment]

\* ------------------------------------------------------------- Versioning
\* Versioning::min_pinned_version_id.
min_pinned_version_id(pins) ==
  IF DOMAIN pins = {} THEN NoPinnedId ELSE Min({pins[c] : c \in DOMAIN pins})

\* Versioning::extend_ssts_to_delete_from_deltas over the deltas with id in
\* `ids`: the SSTs they remove, trivial moves skipped, each with its delta id.
RECURSIVE extend_ssts_to_delete_from_deltas(_, _, _)
extend_ssts_to_delete_from_deltas(to_delete, deltas, ids) ==
  IF ids = {} THEN to_delete
  ELSE LET id == Min(ids)
           removed == IF deltas[id].trivial_move THEN {} ELSE DeltaAllRemoved(deltas[id])
       IN extend_ssts_to_delete_from_deltas(
            [s \in (DOMAIN to_delete) \cup removed |-> IF s \in removed THEN id ELSE to_delete[s]],
            deltas, ids \ {id})

\* A reload that applies no delta.
RedoNone(redo_state, deltas, ids) == redo_state

\* Replay, in id order, every delta whose prev_id is the id reached so far.
RECURSIVE Redo(_, _, _)
Redo(redo_state, deltas, ids) ==
  IF ids = {} THEN redo_state
  ELSE LET id == Min(ids)
       IN Redo(IF deltas[id].prev_id = redo_state.id
               THEN HummockVersion_apply_version_delta(redo_state, deltas[id])
               ELSE redo_state,
               deltas, ids \ {id})

\* Replay every delta of `ids` in id order (proceed_version_checkpoint).
RECURSIVE Replay(_, _, _)
Replay(v, deltas, ids) ==
  IF ids = {} THEN v
  ELSE Replay(HummockVersion_apply_version_delta(v, deltas[Min(ids)]), deltas, ids \ {Min(ids)})

\* load_meta_store_state_impl: the in-memory state built from the store.
load_meta_store_state_impl(store) ==
  LET deltas == store.version_deltas
      redo_state == Redo(store.hummock_version, deltas, DOMAIN deltas)
  IN [compaction_statuses |-> store.compact_statuses,
      compact_task_assignment |-> store.compact_task_assignment,
      checkpoint_version |-> store.hummock_version,
      current_version |-> redo_state,
      max_committed_epoch |-> redo_state.max_committed_epoch,
      hummock_version_deltas |-> deltas,
      pinned_versions |-> store.pinned_versions,
      pinned_snapshots |-> store.pinned_snapshots,
      ssts_to_delete |-> extend_ssts_to_delete_from_deltas(EmptyMap, deltas,
                            {id \in DOMAIN deltas : id <= store.hummock_version.id})]

\* commit_trx: the context check, then the transaction with its check_equal
\* on the leader key.  `io_ok` is whether the store then accepts the write.
commit_trx(context_id, io_ok) ==
  IF context_id # NoCtx /\ context_id # META_NODE_ID /\ context_id \notin members
  THEN "InvalidContext"
  ELSE IF meta_store.leader # LeaderInfo \/ ~io_ok THEN "MetaStoreError"
       ELSE "Ok"

\* ------------------------------------------------ CompactionRequestChannel
NoGroup == Min(Groups) - 1

\* CompactionScheduler::start: the channel it creates, with nothing received.
\* `queue` is what request_tx has sent and request_rx has not received,
\* `closed` is whether request_rx is gone, `compaction_group` is the group
\* pick_and_assign was called with and has not unscheduled.
\* `started` is whether HummockManager::compaction_scheduler holds the channel,
\* `returned` whether the get_compact_task of that pick_and_assign has
\* returned, and `seen` the id of the version the last get_compact_task_impl
\* of the scheduler read for each group.
NewChannel ==
  [queue |-> <<>>, scheduled |-> {}, closed |-> FALSE, compaction_group |-> NoGroup,
   started |-> FALSE, returned |-> FALSE, seen |-> [g \in Groups |-> INVALID_VERSION_ID]]

\* A set that is found to hold nothing.
ContainsNever(guard, compaction_group) == FALSE

\* guard.contains(&compaction_group)
Contains(guard, compaction_group) == compaction_group \in guard

\* CompactionRequestChannel::try_send, under the lock of `scheduled`.
try_send(compaction_group) ==
  LET sent == ~Contains(request_channel.scheduled, compaction_group)
              /\ ~request_channel.closed
  IN /\ request_channel' =
          IF sent
          THEN [request_channel EXCEPT !.queue = Append(@, compaction_group),
                                       !.scheduled = @ \cup {compaction_group}]
          ELSE request_channel
     /\ last' = Called("try_send", IF sent THEN "true" ELSE "false", NoCtx, compaction_group)
     /\ UNCHANGED <<manager_vars, not_channel_vars>>

\* request_rx.recv() in CompactionScheduler::start, then pick_and_assign.
recv ==
  /\ request_channel.compaction_group = NoGroup
  /\ ~request_channel.closed
  /\ request_channel.queue # <<>>
  /\ request_channel' = [request_channel EXCEPT !.queue = Tail(@),
                                                !.compaction_group = Head(request_channel.queue)]
  /\ last' = Called("recv", "Some", NoCtx, Head(request_channel.queue))
  /\ UNCHANGED <<manager_vars, not_channel_vars>>

\* request_channel.unschedule(compaction_group) in pick_and_assign.
unschedule ==
  /\ request_channel.compaction_group # NoGroup
  /\ request_channel' = [request_channel EXCEPT
                           !.scheduled = @ \ {request_channel.compaction_group},
                           !.compaction_group = NoGroup,
                           !.returned = FALSE]
  /\ last' = Called("unschedule", "Ok", NoCtx, request_channel.compaction_group)
  /\ UNCHANGED <<manager_vars, not_channel_vars>>

\* CompactionScheduler::start up to its loop: set_compaction_scheduler.
start ==
  /\ ~request_channel.started
  /\ request_channel' = [NewChannel EXCEPT !.started = TRUE]
  /\ last' = Called("start", "Ok", NoCtx, 0)
  /\ UNCHANGED <<manager_vars, not_channel_vars>>

\* HummockManager::try_send_compaction_request: try_send on the channel of
\* the scheduler, if there is one.
try_send_compaction_request(channel, compaction_group) ==
  IF channel.started /\ ~Contains(channel.scheduled, compaction_group) /\ ~channel.closed
  THEN [channel EXCEPT !.queue = Append(@, compaction_group),
                       !.scheduled = @ \cup {compaction_group}]
  ELSE channel

\* for id in modified_compaction_groups { self.try_send_compaction_request(id); }
RECURSIVE SendRequests(_, _)
SendRequests(channel, compaction_groups) ==
  IF compaction_groups = <<>> THEN channel
  ELSE SendRequests(try_send_compaction_request(channel, Head(compaction_groups)),
                    Tail(compaction_groups))

\* The get_compact_task of the scheduler's pick_and_assign has read the
\* version `id` (INVALID_VERSION_ID: none) and returns, or goes on.
SchedulerPicked(channel, id, returns) ==
  IF channel.compaction_group \in Groups
  THEN [channel EXCEPT !.seen[channel.compaction_group] = IF id = INVALID_VERSION_ID THEN @ ELSE id,
                       !.returned = returns]
  ELSE channel

\* The shutdown of the scheduler between two requests: request_rx is dropped.
shutdown ==
  /\ request_channel.compaction_group = NoGroup
  /\ ~request_channel.closed
  /\ request_channel' = [request_channel EXCEPT !.closed = TRUE]
  /\ last' = Called("shutdown", "Ok", NoCtx, 0)
  /\ UNCHANGED <<manager_vars, not_channel_vars>>

\* ---------------------------------------------------- S3StreamingUploader
\* Lengths are in MiB.  A Bytes value is [id, len]: `id` tells the calls of
\* write_bytes apart, so that a list of them stands for the bytes it holds.
MIN_PART_ID == 1
MIN_PART_SIZE == 5
S3_PART_SIZE == 16
MaxWrites == 5                   \* calls of write_bytes on one uploader
WriteLens == {3, 5, 17}          \* data.len() of a call

RECURSIVE SumLen(_)
SumLen(data) == IF data = <<>> THEN 0 ELSE Head(data).len + SumLen(Tail(data))

\* S3StreamingUploader::new; `written` keeps every argument of write_bytes,
\* `state` is "open", then "joining" inside flush_and_complete, then
\* "finished", and `result` keeps what finish returned.
NewUploader ==
  [part_size |-> S3_PART_SIZE, next_part_id |-> MIN_PART_ID, join_handles |-> <<>>,
   buf |-> <<>>, not_uploaded_len |-> 0, next_part_len |-> 0, part_end |-> 0,
   written |-> <<>>, state |-> "open", result |-> "-"]

\* The bucket after create_multipart_upload: the upload with its parts, and
\* the object under the key.
NewUpload ==
  [upload |-> "open", parts |-> EmptyMap, object |-> [visible |-> FALSE, data |-> <<>>]]

\* A part id that is used again for the next part.
SamePartId(part_id) == part_id

\* self.next_part_id += 1
NextPartId(part_id) == part_id + 1

\* upload_next_part: the uploader with one more part upload spawned.
upload_next_part(u, data, len) ==
  [u EXCEPT !.next_part_id = NextPartId(u.next_part_id),
            !.join_handles = Append(@, [part_id |-> u.next_part_id, data |-> data,
                                        len |-> len, result |-> "running"])]

\* A part is cut as soon as anything follows it.
NextPartStarted(next_part_len) == next_part_len > 0

\* if self.next_part_len >= MIN_PART_SIZE
NextPartReady(next_part_len) == next_part_len >= MIN_PART_SIZE

write_bytes(data_len) ==
  LET data == [id |-> Len(uploader.written) + 1, len |-> data_len]
      not_uploaded_len == uploader.not_uploaded_len + data_len
      buf == Append(uploader.buf, data)
      over == not_uploaded_len > uploader.part_size
      part_end == IF over /\ uploader.part_end = 0 THEN Len(buf) ELSE uploader.part_end
      next_part_len == IF over /\ uploader.part_end # 0
                       THEN uploader.next_part_len + data_len ELSE uploader.next_part_len
      pushed == [uploader EXCEPT !.written = Append(@, data), !.buf = buf,
                                 !.not_uploaded_len = not_uploaded_len,
                                 !.part_end = part_end, !.next_part_len = next_part_len]
  IN /\ uploader.state = "open"
     /\ Len(uploader.written) < MaxWrites
     /\ uploader' =
          IF NextPartReady(next_part_len)
          THEN [upload_next_part(pushed, SubSeq(buf, 1, part_end),
                                 not_uploaded_len - next_part_len)
                  EXCEPT !.buf = SubSeq(buf, part_end + 1, Len(buf)),
                         !.not_uploaded_len = next_part_len,
                         !.part_end = 0, !.next_part_len = 0]
          ELSE pushed
     /\ last' = Called("write_bytes", "Ok", NoCtx, data_len)
     /\ UNCHANGED <<manager_vars, not_upload_vars, s3>>

\* The task of a part upload ends: upload_part has stored the part, or failed.
part_upload(i, ok) ==
  /\ i \in DOMAIN uploader.join_handles
  /\ uploader.join_handles[i].result = "running"
  /\ uploader' = [uploader EXCEPT !.join_handles[i].result = IF ok THEN "ok" ELSE "err"]
  /\ s3' = IF ok
           THEN [s3 EXCEPT !.parts = [id \in DOMAIN s3.parts \cup {uploader.join_handles[i].part_id}
                                       |-> IF id = uploader.join_handles[i].part_id
                                           THEN uploader.join_handles[i].data ELSE s3.parts[id]]]
           ELSE s3
  /\ last' = Called("upload_part", IF ok THEN "Ok" ELSE "Err", NoCtx,
                    uploader.join_handles[i].part_id)
  /\ UNCHANGED <<manager_vars, not_upload_vars>>

\* An abort request that is answered Ok and aborts nothing.
abort_nothing(bucket, abort_ok) == bucket

\* S3StreamingUploader::abort: the bucket after abort_multipart_upload.
abort(bucket, abort_ok) == IF abort_ok THEN [bucket EXCEPT !.upload = "aborted"] ELSE bucket

\* The data of the parts, in the order of the list of their ids.
RECURSIVE PartsData(_, _)
PartsData(parts, part_ids) ==
  IF part_ids = <<>> THEN <<>>
  ELSE parts[Head(part_ids)] \o PartsData(parts, Tail(part_ids))

\* complete_multipart_upload: the object is made of the listed parts.
complete_multipart_upload(bucket, part_ids) ==
  [bucket EXCEPT !.upload = "completed",
                 !.object = [visible |-> TRUE, data |-> PartsData(bucket.parts, part_ids)]]

\* finish up to its first wait: without part uploads it aborts the multipart
\* upload and puts the buffer as one object; with part uploads it enters
\* flush_and_complete, which spawns the upload of the rest of the buffer.
finish_start(abort_ok, put_ok) ==
  /\ uploader.state = "open"
  /\ IF uploader.join_handles = <<>>
     THEN LET ret == IF ~abort_ok THEN "AbortError"
                     ELSE IF uploader.buf = <<>> THEN "EmptyObject"
                     ELSE IF put_ok THEN "Ok" ELSE "PutError"
          IN /\ uploader' = [uploader EXCEPT !.state = "finished", !.result = ret]
             /\ s3' = IF ret = "Ok"
                      THEN [abort(s3, abort_ok) EXCEPT
                              !.object = [visible |-> TRUE, data |-> uploader.buf]]
                      ELSE abort(s3, abort_ok)
             /\ last' = Called("finish", ret, NoCtx, 0)
     ELSE /\ uploader' = [upload_next_part(uploader, uploader.buf, uploader.not_uploaded_len)
                            EXCEPT !.state = "joining"]
          /\ last' = Called("flush_and_complete", "Joining", NoCtx, 0)
          /\ UNCHANGED s3
  /\ UNCHANGED <<manager_vars, not_upload_vars>>

\* finish from try_join_all on: every spawned part upload is awaited (an
\* upload error is the value of its task, not a join error), then the first
\* upload error is returned, or the upload is completed when all have
\* succeeded; on any error of flush_and_complete finish aborts, and returns
\* the error of the abort if that fails.
finish_join(complete_ok, abort_ok) ==
  LET handles == uploader.join_handles
      failed == \E i \in DOMAIN handles : handles[i].result = "err"
      joined == \A i \in DOMAIN handles : handles[i].result = "ok"
      uploaded_parts == [i \in DOMAIN handles |-> handles[i].part_id]
      completed == joined /\ complete_ok
      ret == IF completed THEN "Ok"
             ELSE IF ~abort_ok THEN "AbortError"
             ELSE IF failed THEN "UploadPartError" ELSE "CompleteError"
  IN /\ uploader.state = "joining"
     /\ \A i \in DOMAIN handles : handles[i].result # "running"
     /\ uploader' = [uploader EXCEPT !.state = "finished", !.result = ret]
     /\ s3' = IF completed THEN complete_multipart_upload(s3, uploaded_parts)
              ELSE abort(s3, abort_ok)
     /\ last' = Called("finish", ret, NoCtx, 0)
     /\ UNCHANGED <<manager_vars, not_upload_vars>>

\* ----------------------------------------------------------- SstableStore
\* The SSTs the store is asked for, and the blocks of each.
StoreSstIds == {1, 2}
BlockIndexes == {0, 1}
\* Entries a cache holds before it evicts.
BlockCacheCapacity == 2
TieredCacheCapacity == 2
CachePolicy == {"Disable", "Fill", "NotFill"}

\* The uncompressed bytes of a block, the bytes of it in the data object,
\* Block::decode of those, and the encoding of a block in the tiered cache
\* (TieredCacheValue for Box<Block>: encode writes raw_data, decode reads it).
RawData(sst_id, block_index) == sst_id * 10 + block_index
Compressed(raw_data) == <<"compressed", raw_data>>
BlockDecode(block_data) == [raw_data |-> block_data[2]]
BlockEncode(block) == block.raw_data
BlockDecodeFromRaw(buf) == [raw_data |-> buf]
SstData(sst_id) == [i \in BlockIndexes |-> Compressed(RawData(sst_id, i))]

\* SstableStore::new over an empty object store. `sstables` are the SSTs a
\* caller holds an Sstable of, `deleted` those whose delete has succeeded,
\* and `filled` the block the last get with Fill returned for a key.
NewSstableStore ==
  [data |-> EmptyMap, meta |-> EmptyMap, meta_cache |-> {},
   block_cache |-> <<>>, tiered_cache |-> <<>>,
   sstables |-> {}, deleted |-> {}, filled |-> EmptyMap]

\* An LRU cache is the sequence of its entries, the least recently used first.
Cached(cache, key) == \E i \in DOMAIN cache : cache[i].key = key
CachedValue(cache, key) == cache[CHOOSE i \in DOMAIN cache : cache[i].key = key].value
CacheWithout(cache, key) == SelectSeq(cache, LAMBDA e : e.key # key)
CacheOnly(cache, key) == SelectSeq(cache, LAMBDA e : e.key = key)
LruTouch(cache, key) == CacheWithout(cache, key) \o CacheOnly(cache, key)

\* LruCache::insert: the entry becomes the most recent one; the entry it
\* replaces and the entries over the capacity are released.
LruInsert(cache, key, value, capacity) ==
  LET kept == CacheWithout(cache, key) \o <<[key |-> key, value |-> value]>>
      over == IF Len(kept) > capacity THEN Len(kept) - capacity ELSE 0
  IN [cache |-> SubSeq(kept, over + 1, Len(kept)),
      released |-> CacheOnly(cache, key) \o SubSeq(kept, 1, over)]

\* A listener that drops what the block cache releases.
on_release_drop(tiered_cache, key, value) == tiered_cache

\* BlockCacheEventListener::on_release: the released block goes into the
\* tiered cache.
on_release(tiered_cache, key, value) ==
  LruInsert(tiered_cache, key, BlockEncode(value), TieredCacheCapacity).cache

RECURSIVE ReleaseAll(_, _)
ReleaseAll(tiered_cache, released) ==
  IF released = <<>> THEN tiered_cache
  ELSE ReleaseAll(on_release(tiered_cache, Head(released).key, Head(released).value),
                  Tail(released))

\* BlockCache::insert with the listener of SstableStore::new.
BlockCacheInsert(store, key, block) ==
  LET r == LruInsert(store.block_cache, key, block, BlockCacheCapacity)
  IN [store EXCEPT !.block_cache = r.cache,
                   !.tiered_cache = ReleaseAll(@, r.released)]

\* The closure fetch_block of get: the tiered cache unless the policy is
\* Disable, then the data object.
fetch_block(store, key, policy) ==
  IF policy # "Disable" /\ Cached(store.tiered_cache, key)
  THEN [ret |-> "Ok", source |-> "tiered_cache",
        block |-> BlockDecodeFromRaw(CachedValue(store.tiered_cache, key))]
  ELSE IF key[1] \notin DOMAIN store.data
  THEN [ret |-> "NotFound", source |-> "object_store", block |-> [raw_data |-> 0]]
  ELSE [ret |-> "Ok", source |-> "object_store",
        block |-> BlockDecode(store.data[key[1]][key[2]])]

\* What get returns and the store it leaves.
GetResult(store, key, policy) ==
  LET fetched == fetch_block(store, key, policy)
      hit == [ret |-> "Ok", source |-> "block_cache",
              block |-> CachedValue(store.block_cache, key)]
      touched == [store EXCEPT !.block_cache = LruTouch(@, key)]
  IN CASE policy = "Fill" ->
            IF Cached(store.block_cache, key) THEN [r |-> hit, store |-> touched]
            ELSE [r |-> fetched,
                  store |-> IF fetched.ret = "Ok"
                            THEN BlockCacheInsert(store, key, fetched.block) ELSE store]
       [] policy = "NotFill" ->
            IF Cached(store.block_cache, key) THEN [r |-> hit, store |-> touched]
            ELSE [r |-> fetched, store |-> store]
       [] OTHER -> [r |-> fetch_block(store, key, "Disable"), store |-> store]

\* SstableStore::get of a block of an SST the caller holds the Sstable of.
get(sst_id, block_index, policy) ==
  LET key == <<sst_id, block_index>>
      g == GetResult(sstable_store, key, policy)
  IN /\ sst_id \in sstable_store.sstables
     /\ sstable_store' =
          [g.store EXCEPT !.filled = IF policy = "Fill" /\ g.r.ret = "Ok"
                                     THEN Put(@, key, g.r.block) ELSE @]
     /\ last' = [op |-> "get", ret |-> g.r.ret, ctx |-> NoCtx, arg |-> sst_id,
                 prev |-> policy, out |-> <<block_index, g.r.source, g.r.block>>]
     /\ UNCHANGED <<manager_vars, not_store_vars>>

\* A delete request that is answered Ok and deletes nothing.
delete_nothing(store, sst_id, delete_ok) == store

\* SstableStore::delete_sst_data.
delete_sst_data(store, sst_id, delete_ok) ==
  IF delete_ok THEN [store EXCEPT !.data = Del(@, sst_id)] ELSE store

\* put_sst and finish_put_sst_stream once the data object is uploaded: the
\* meta object, the cleanup when its upload fails, the meta cache.
PutMeta(store, sst_id, meta_ok, delete_ok) ==
  IF meta_ok
  THEN [ret |-> "Ok",
        store |-> [store EXCEPT !.meta = Put(@, sst_id, BlockIndexes),
                                !.meta_cache = @ \cup {sst_id},
                                !.sstables = @ \cup {sst_id}]]
  ELSE [ret |-> IF delete_ok THEN "MetaError" ELSE "DeleteError",
        store |-> delete_sst_data(store, sst_id, delete_ok)]

RECURSIVE FillBlocks(_, _, _)
FillBlocks(store, sst_id, block_indexes) ==
  IF block_indexes = {} THEN store
  ELSE LET i == Min(block_indexes)
       IN FillBlocks(BlockCacheInsert(store, <<sst_id, i>>, BlockDecode(store.data[sst_id][i])),
                     sst_id, block_indexes \ {i})

\* SstableStoreWrite::put_sst of a new SST.
put_sst(sst_id, policy, data_ok, meta_ok, delete_ok) ==
  LET uploaded == [sstable_store EXCEPT !.data = Put(@, sst_id, SstData(sst_id))]
      p == PutMeta(uploaded, sst_id, meta_ok, delete_ok)
  IN /\ sst_id \notin sstable_store.sstables \cup sstable_store.deleted
     /\ sstable_store' = IF ~data_ok THEN sstable_store
                         ELSE IF p.ret = "Ok" /\ policy = "Fill"
                         THEN FillBlocks(p.store, sst_id, BlockIndexes)
                         ELSE p.store
     /\ last' = [op |-> "put_sst", ret |-> IF data_ok THEN p.ret ELSE "DataError",
                 ctx |-> NoCtx, arg |-> sst_id, prev |-> policy, out |-> <<>>]
     /\ UNCHANGED <<manager_vars, not_store_vars>>

\* SstableStore::finish_put_sst_stream of a new SST whose blocks have been
\* written to the streaming uploader.
finish_put_sst_stream(sst_id, finish_ok, meta_ok, delete_ok) ==
  LET uploaded == [sstable_store EXCEPT !.data = Put(@, sst_id, SstData(sst_id))]
      p == PutMeta(uploaded, sst_id, meta_ok, delete_ok)
  IN /\ sst_id \notin sstable_store.sstables \cup sstable_store.deleted
     /\ sstable_store' = IF finish_ok THEN p.store ELSE sstable_store
     /\ last' = [op |-> "finish_put_sst_stream",
                 ret |-> IF finish_ok THEN p.ret ELSE "FinishError",
                 ctx |-> NoCtx, arg |-> sst_id, prev |-> "-", out |-> <<>>]
     /\ UNCHANGED <<manager_vars, not_store_vars>>

\* SstableStore::delete: the meta object, the data object, the meta cache.
delete(sst_id, meta_delete_ok, data_delete_ok) ==
  /\ sst_id \in sstable_store.sstables
  /\ sstable_store' =
       IF ~meta_delete_ok THEN sstable_store
       ELSE IF ~data_delete_ok THEN [sstable_store EXCEPT !.meta = Del(@, sst_id)]
       ELSE [sstable_store EXCEPT !.meta = Del(@, sst_id), !.data = Del(@, sst_id),
                                  !.meta_cache = @ \ {sst_id},
                                  !.deleted = @ \cup {sst_id}]
  /\ last' = [op |-> "delete",
              ret |-> IF meta_delete_ok /\ data_delete_ok THEN "Ok" ELSE "DeleteError",
              ctx |-> NoCtx, arg |-> sst_id, prev |-> "-", out |-> <<>>]
  /\ UNCHANGED <<manager_vars, not_store_vars>>

\* SstableStore::sstable: the meta cache, filled from the meta object.
sstable(sst_id) ==
  LET found == sst_id \in sstable_store.meta_cache \/ sst_id \in DOMAIN sstable_store.meta
  IN /\ sst_id \in sstable_store.sstables
     /\ sstable_store' = IF found THEN [sstable_store EXCEPT !.meta_cache = @ \cup {sst_id}]
                         ELSE sstable_store
     /\ last' = [op |-> "sstable", ret |-> IF found THEN "Ok" ELSE "NotFound",
                 ctx |-> NoCtx, arg |-> sst_id, prev |-> "-", out |-> <<>>]
     /\ UNCHANGED <<manager_vars, not_store_vars>>

\* -------------------------------------------------------------- Compactor
\* The user keys, epochs and watermarks of the merges.
UserKeys == {1, 2}
Epochs == {5, 10, 15}
Watermarks == {4, 10, 12, 15}
NoKey == 0                          \* an empty key (kr.right, last_key)

\* The versions of one user key: no two of the same epoch.
VersionSets ==
  {S \in SUBSET (Epochs \X BOOLEAN) : \A v, w \in S : v[1] = w[1] => v = w}

\* The versions of a user key as the merge iterator yields them: epoch
\* descending.
RECURSIVE KeyVersions(_, _)
KeyVersions(user_key, S) ==
  IF S = {} THEN <<>>
  ELSE LET v == CHOOSE v \in S : \A w \in S : w[1] <= v[1]
       IN <<[user_key |-> user_key, epoch |-> v[1], is_delete |-> v[2]]>>
          \o KeyVersions(user_key, S \ {v})

\* The merged input: user key ascending, epoch descending.
RECURSIVE MergedInput(_, _)
MergedInput(versions, user_keys) ==
  IF user_keys = {} THEN <<>>
  ELSE LET k == Min(user_keys)
       IN KeyVersions(k, versions[k]) \o MergedInput(versions, user_keys \ {k})

NoMerge == [done |-> FALSE, input |-> <<>>, kr_right |-> NoKey, gc_delete_keys |-> FALSE,
            watermark |-> 0, filter |-> {}, output |-> <<>>]

\* A drop condition without the second disjunct.
ShouldDropGcOnly(epoch, is_delete, watermark, gc_delete_keys, watermark_can_see_last_key) ==
  epoch <= watermark /\ gc_delete_keys /\ is_delete

\* A drop condition that forgets whether a newer version is visible.
ShouldDropAllBelow(epoch, is_delete, watermark, gc_delete_keys, watermark_can_see_last_key) ==
  \/ epoch <= watermark /\ gc_delete_keys /\ is_delete
  \/ epoch < watermark

\* The drop condition of the merge loop.
ShouldDrop(epoch, is_delete, watermark, gc_delete_keys, watermark_can_see_last_key) ==
  \/ epoch <= watermark /\ gc_delete_keys /\ is_delete
  \/ epoch < watermark /\ watermark_can_see_last_key

\* The loop of compact_and_build_sst from the position of the iterator on:
\* what it adds to the builder. The compaction filter is the set of user
\* keys it deletes.
RECURSIVE MergeLoop(_, _, _, _, _, _, _)
MergeLoop(iter, last_key, watermark_can_see_last_key, kr_right, gc_delete_keys, watermark, filter) ==
  IF iter = <<>> THEN <<>>
  ELSE LET e == Head(iter)
           is_new_user_key == last_key = NoKey \/ e.user_key # last_key
           can_see == IF is_new_user_key THEN FALSE ELSE watermark_can_see_last_key
           drop == \/ ShouldDrop(e.epoch, e.is_delete, watermark, gc_delete_keys, can_see)
                   \/ e.user_key \in filter
           rest == MergeLoop(Tail(iter), IF is_new_user_key THEN e.user_key ELSE last_key,
                             can_see \/ e.epoch <= watermark,
                             kr_right, gc_delete_keys, watermark, filter)
       IN IF is_new_user_key /\ kr_right # NoKey /\ e.user_key >= kr_right THEN <<>>
          ELSE IF drop THEN rest
          ELSE <<e>> \o rest

\* Compactor::compact_and_build_sst over a merged input, from the rewound
\* iterator to the end of the loop.
compact_and_build_sst(input, kr_right, gc_delete_keys, watermark, filter) ==
  /\ ~merge.done
  /\ merge' = [done |-> TRUE, input |-> input, kr_right |-> kr_right,
               gc_delete_keys |-> gc_delete_keys, watermark |-> watermark, filter |-> filter,
               output |-> MergeLoop(input, NoKey, FALSE, kr_right, gc_delete_keys,
                                    watermark, filter)]
  /\ last' = [op |-> "compact_and_build_sst", ret |-> "Ok", ctx |-> NoCtx,
              arg |-> watermark, prev |-> "-", out |-> <<>>]
  /\ UNCHANGED <<manager_vars, not_compactor_vars, compaction>>

\* Compact tasks one compactor handles, splits of a task, SSTs of a split.
MaxCompactions == 2
MaxSplits == 3
MaxSplitSsts == 2

NoCompaction == [state |-> "idle", task_id |-> 0, runners |-> <<>>, output_ssts |-> <<>>,
                 compact_success |-> TRUE, reports |-> <<>>, returned |-> <<>>]

\* The SSTs a split has built.
SplitSsts(split_index, n) == [k \in 1..n |-> split_index * 10 + k]

\* Compactor::compact up to the spawn of the split runners; when the SST id
\* tracker fails it returns false at once.
compact_start(parallelism, tracker_ok) ==
  /\ compaction.state \in {"idle", "done"}
  /\ compaction.task_id < MaxCompactions
  /\ compaction' =
       IF tracker_ok
       THEN [compaction EXCEPT !.state = "running", !.task_id = @ + 1,
                               !.runners = [i \in 1..parallelism |-> "running"],
                               !.output_ssts = <<>>, !.compact_success = TRUE]
       ELSE [compaction EXCEPT !.state = "done", !.task_id = @ + 1,
                               !.runners = <<>>, !.output_ssts = <<>>,
                               !.returned = Append(@, FALSE)]
  /\ last' = [op |-> "compact", ret |-> IF tracker_ok THEN "Spawned" ELSE "false",
              ctx |-> NoCtx, arg |-> compaction.task_id + 1, prev |-> "-", out |-> <<>>]
  /\ UNCHANGED <<manager_vars, not_compactor_vars, merge>>

\* One split runner ends and buffer_unordered yields its result: the loop
\* of compact takes the results in the order the runners end.
runner_finish(i, result, n) ==
  /\ compaction.state = "running"
  /\ i \in DOMAIN compaction.runners
  /\ compaction.runners[i] = "running"
  /\ compaction' =
       IF result = "ok"
       THEN [compaction EXCEPT !.runners[i] = result,
                               !.output_ssts = Append(@, <<i - 1, SplitSsts(i - 1, n)>>)]
       ELSE [compaction EXCEPT !.runners[i] = result, !.compact_success = FALSE]
  /\ last' = [op |-> "run", ret |-> result, ctx |-> NoCtx, arg |-> i - 1,
              prev |-> "-", out |-> <<>>]
  /\ UNCHANGED <<manager_vars, not_compactor_vars, merge>>

\* sort_by_key on the split index.
RECURSIVE SortBySplit(_)
SortBySplit(output_ssts) ==
  IF output_ssts = <<>> THEN <<>>
  ELSE LET m == CHOOSE j \in DOMAIN output_ssts :
                  \A k \in DOMAIN output_ssts : output_ssts[j][1] <= output_ssts[k][1]
       IN <<output_ssts[m]>>
          \o SortBySplit([k \in 1..(Len(output_ssts) - 1) |->
                            IF k < m THEN output_ssts[k] ELSE output_ssts[k + 1]])

RECURSIVE Flatten(_)
Flatten(output_ssts) ==
  IF output_ssts = <<>> THEN <<>> ELSE Head(output_ssts)[2] \o Flatten(Tail(output_ssts))

\* Compactor::compact_done: the task as it is reported.
compact_done(task_id, output_ssts, task_ok) ==
  [task_id |-> task_id, task_status |-> task_ok, sorted_output_ssts |-> Flatten(output_ssts),
   running |-> {i \in DOMAIN compaction.runners : compaction.runners[i] = "running"}]

\* Compactor::compact once the stream of results has ended: sort, report,
\* return; an error of the report is logged.
compact_finish(report_ok) ==
  /\ compaction.state = "running"
  /\ \A i \in DOMAIN compaction.runners : compaction.runners[i] # "running"
  /\ compaction' =
       [compaction EXCEPT !.state = "done",
                          !.output_ssts = SortBySplit(@),
                          !.reports = Append(@, compact_done(compaction.task_id,
                                                             SortBySplit(compaction.output_ssts),
                                                             compaction.compact_success)),
                          !.returned = Append(@, compaction.compact_success)]
  /\ last' = [op |-> "compact", ret |-> IF compaction.compact_success THEN "true" ELSE "false",
              ctx |-> NoCtx, arg |-> compaction.task_id,
              prev |-> IF report_ok THEN "reported" ELSE "report failed", out |-> <<>>]
  /\ UNCHANGED <<manager_vars, not_compactor_vars, merge>>

\* ------------------------------------------------ the locks of the manager
\* HummockManager keeps `compaction` and `versioning` behind two RwLocks whose
\* waiters are served in the order they asked.  A call is the list of what it
\* does to the locks; its guards are dropped where their scope ends.
LockThreads == {1, 2, 3}
LockNames == {"compaction", "versioning"}

LockWrite(name) == [do |-> "lock", on |-> name, mode |-> "write"]
LockRead(name) == [do |-> "lock", on |-> name, mode |-> "read"]
LockDrop(name) == [do |-> "drop", on |-> name, mode |-> "-"]

\* Both locks, versioning asked for first.
VersioningThenCompaction ==
  <<LockWrite("versioning"), LockWrite("compaction"), LockDrop("compaction"),
    LockDrop("versioning")>>

\* let mut compaction_guard = write_lock!(self, compaction).await;
\* let mut versioning_guard = write_lock!(self, versioning).await;
CompactionThenVersioning ==
  <<LockWrite("compaction"), LockWrite("versioning"), LockDrop("versioning"),
    LockDrop("compaction")>>

LockCalls ==
  {"load_meta_store_state", "check_state_consistency", "pin_version", "commit_epoch",
   "proceed_version_checkpoint", "get_current_version",
   "get_compact_task_impl", "get_compact_task_impl trivial move",
   "assign_compaction_task", "cancel_unassigned_compaction_task",
   "report_compact_task_impl finished", "report_compact_task_impl cancelled",
   "report_compact_task_impl wrong reporter"}

\* pin_version stands for the calls that take the versioning write lock alone
\* (the pins and unpins), get_current_version for those that read it.
LockSteps(op) ==
  CASE op \in {"load_meta_store_state", "check_state_consistency"} -> CompactionThenVersioning
    [] op \in {"pin_version", "commit_epoch", "proceed_version_checkpoint"} ->
         <<LockWrite("versioning"), LockDrop("versioning")>>
    [] op = "get_current_version" -> <<LockRead("versioning"), LockDrop("versioning")>>
    [] op = "get_compact_task_impl" ->
         <<LockWrite("compaction"), LockRead("versioning"), LockDrop("versioning"),
           LockDrop("compaction")>>
    [] op = "get_compact_task_impl trivial move" ->
         <<LockWrite("compaction"), LockRead("versioning"), LockDrop("versioning"),
           LockWrite("versioning"), LockDrop("versioning"), LockDrop("compaction")>>
    [] op \in {"assign_compaction_task", "cancel_unassigned_compaction_task",
               "report_compact_task_impl wrong reporter"} ->
         <<LockWrite("compaction"), LockDrop("compaction")>>
    [] op = "report_compact_task_impl finished" ->
         <<LockWrite("compaction"), LockWrite("versioning"), LockDrop("versioning"),
           LockRead("versioning"), LockDrop("versioning"), LockDrop("compaction")>>
    [] op = "report_compact_task_impl cancelled" ->
         <<LockWrite("compaction"), LockRead("versioning"), LockDrop("versioning"),
           LockDrop("compaction")>>

NoLockCall == [op |-> "-", pc |-> 0]

NewLocks ==
  [at |-> [t \in LockThreads |-> NoLockCall],
   queue |-> [name \in LockNames |-> <<>>],
   held |-> [name \in LockNames |-> {}]]

LockStep(t) == LockSteps(locks.at[t].op)[locks.at[t].pc]
Holds(t, name) == \E g \in locks.held[name] : g.by = t
Queued(t, name) == \E i \in DOMAIN locks.queue[name] : locks.queue[name][i].by = t

\* The lock can be given in this mode to the waiter at the head of its queue.
Grantable(name, mode) ==
  IF mode = "write" THEN locks.held[name] = {}
  ELSE \A g \in locks.held[name] : g.mode = "read"

\* A thread enters a call.
lock_call(t, op) ==
  /\ locks.at[t].pc = 0
  /\ locks' = [locks EXCEPT !.at[t] = [op |-> op, pc |-> 1]]
  /\ last' = [op |-> op, ret |-> "called", ctx |-> t, arg |-> 0, prev |-> "-", out |-> <<>>]
  /\ UNCHANGED <<manager_vars, not_lock_vars>>

\* read_lock! / write_lock!: the thread joins the waiters of the lock.
lock_request(t) ==
  /\ locks.at[t].pc # 0
  /\ LET step == LockStep(t)
     IN /\ step.do = "lock"
        /\ ~Queued(t, step.on)
        /\ locks' = [locks EXCEPT !.queue[step.on] = Append(@, [by |-> t, mode |-> step.mode])]
        /\ last' = [op |-> locks.at[t].op, ret |-> "waiting", ctx |-> t, arg |-> locks.at[t].pc,
                    prev |-> "-", out |-> <<step.on, step.mode>>]
  /\ UNCHANGED <<manager_vars, not_lock_vars>>

\* .await returns the guard to the first waiter when the holders allow it.
lock_grant(t) ==
  /\ locks.at[t].pc # 0
  /\ LET step == LockStep(t)
     IN /\ step.do = "lock"
        /\ locks.queue[step.on] # <<>>
        /\ Head(locks.queue[step.on]).by = t
        /\ Grantable(step.on, step.mode)
        /\ locks' = [locks EXCEPT !.queue[step.on] = Tail(@),
                                  !.held[step.on] = @ \cup {[by |-> t, mode |-> step.mode]},
                                  !.at[t].pc = @ + 1]
        /\ last' = [op |-> locks.at[t].op, ret |-> "locked", ctx |-> t, arg |-> locks.at[t].pc,
                    prev |-> "-", out |-> <<step.on, step.mode>>]
  /\ UNCHANGED <<manager_vars, not_lock_vars>>

\* A guard goes out of scope; after the last one the call returns.
lock_drop(t) ==
  /\ locks.at[t].pc # 0
  /\ LET step == LockStep(t)
         returns == locks.at[t].pc = Len(LockSteps(locks.at[t].op))
     IN /\ step.do = "drop"
        /\ locks' = [locks EXCEPT !.held[step.on] = {g \in @ : g.by # t},
                                  !.at[t] = IF returns THEN NoLockCall
                                            ELSE [@ EXCEPT !.pc = @ + 1]]
        /\ last' = [op |-> locks.at[t].op, ret |-> IF returns THEN "returned" ELSE "dropped",
                    ctx |-> t, arg |-> locks.at[t].pc, prev |-> "-", out |-> <<step.on>>]
  /\ UNCHANGED <<manager_vars, not_lock_vars>>

\* ---------------------------------------------------- LocalVersionManager
\* Threads that call try_update_pinned_version, and the newest version id a
\* payload brings.
LocalThreads == {1, 2}
MaxLocalVersionId == 4

\* The version of an id as the meta node has it (each transition adds the
\* SST of its id), and the delta that leads to it.
LocalVersionOf(id) == [id |-> id, ssts |-> 1..id]
LocalDelta(id) == [id |-> id, prev_id |-> id - 1]

\* The payloads of pin_version_response: a version, or the deltas after the
\* version the caller had pinned.
PinnedVersionPayload(id) == [kind |-> "PinnedVersion", version |-> LocalVersionOf(id)]
VersionDeltasPayload(from, to) ==
  [kind |-> "VersionDeltas", version_deltas |-> [i \in 1..(to - from) |-> LocalDelta(from + i)]]
Payloads ==
  {PinnedVersionPayload(id) : id \in FIRST_VERSION_ID..MaxLocalVersionId}
  \cup UNION {{VersionDeltasPayload(from, to) : to \in from..MaxLocalVersionId} :
                from \in FIRST_VERSION_ID..MaxLocalVersionId}

NoLocalCall == [pc |-> "idle", newly_pinned_version |-> LocalVersionOf(INVALID_VERSION_ID)]
NewLocalVersion ==
  [pinned_version |-> LocalVersionOf(FIRST_VERSION_ID),
   calls |-> [t \in LocalThreads |-> NoLocalCall]]

\* A check that lets every version in.
NotNewerNever(pinned_id, tip_id) == FALSE

\* The check of both halves of try_update_pinned_version.
NotNewer(pinned_id, tip_id) == pinned_id >= tip_id

\* A compute node that has not subscribed.
NoSubscriber == [id |-> INVALID_VERSION_ID, panicked |-> FALSE]

\* The compute node that subscribed receives HummockVersionDeltas with one
\* delta and folds it in with try_update_pinned_version: nothing for a delta
\* that is not newer, assert_eq!(version_to_apply.id, version_delta.prev_id)
\* otherwise.
notify_compute(node, version_delta) ==
  IF node = NoSubscriber \/ node.panicked \/ NotNewer(node.id, version_delta.id) THEN node
  ELSE IF node.id = version_delta.prev_id THEN [node EXCEPT !.id = version_delta.id]
       ELSE [node EXCEPT !.panicked = TRUE]

\* The compute node subscribes and starts from the version it has pinned.
subscribe ==
  /\ compute_node = NoSubscriber
  /\ compute_node' = [id |-> current_version.id, panicked |-> FALSE]
  /\ last' = [op |-> "subscribe", ret |-> "Ok", ctx |-> NoCtx, arg |-> current_version.id,
              prev |-> "-", out |-> <<>>]
  /\ UNCHANGED <<manager_vars, not_compute_vars>>

\* The id of the tip of a payload.
NewVersionId(payload, old_version) ==
  IF payload.kind = "PinnedVersion" THEN payload.version.id
  ELSE IF payload.version_deltas = <<>> THEN old_version.id
  ELSE payload.version_deltas[Len(payload.version_deltas)].id

\* The loop over the deltas: assert_eq on prev_id, then apply.
RECURSIVE ApplyDeltas(_, _)
ApplyDeltas(version_to_apply, version_deltas) ==
  IF version_deltas = <<>> THEN [ok |-> TRUE, version |-> version_to_apply]
  ELSE IF version_to_apply.id # Head(version_deltas).prev_id
  THEN [ok |-> FALSE, version |-> version_to_apply]
  ELSE ApplyDeltas([id |-> Head(version_deltas).id,
                    ssts |-> version_to_apply.ssts \cup {Head(version_deltas).id}],
                   Tail(version_deltas))

\* try_update_pinned_version under the read lock: the first check and the
\* version to install; a failed assert_eq panics.
try_update_pinned_version_read(t, payload) ==
  LET old_version == local_version.pinned_version
      tip_id == NewVersionId(payload, old_version)
      applied == IF payload.kind = "PinnedVersion"
                 THEN [ok |-> TRUE, version |-> payload.version]
                 ELSE ApplyDeltas(old_version, payload.version_deltas)
      ret == IF NotNewer(old_version.id, tip_id) THEN "None"
             ELSE IF ~applied.ok THEN "panic" ELSE "checked"
  IN /\ local_version.calls[t].pc = "idle"
     /\ local_version' =
          IF ret = "checked"
          THEN [local_version EXCEPT !.calls[t] = [pc |-> "checked",
                                                   newly_pinned_version |-> applied.version]]
          ELSE local_version
     /\ last' = [op |-> "try_update_pinned_version", ret |-> ret, ctx |-> t,
                 arg |-> tip_id, prev |-> payload.kind, out |-> <<"read">>]
     /\ UNCHANGED <<manager_vars, not_local_vars>>

\* try_update_pinned_version under the write lock: the second check, then
\* set_pinned_version.
try_update_pinned_version_write(t) ==
  LET newly_pinned_version == local_version.calls[t].newly_pinned_version
      stale == NotNewer(local_version.pinned_version.id, newly_pinned_version.id)
  IN /\ local_version.calls[t].pc = "checked"
     /\ local_version' =
          [local_version EXCEPT !.calls[t] = NoLocalCall,
                                !.pinned_version = IF stale THEN @ ELSE newly_pinned_version]
     /\ last' = [op |-> "try_update_pinned_version", ret |-> IF stale THEN "None" ELSE "Some",
                 ctx |-> t, arg |-> newly_pinned_version.id, prev |-> "-", out |-> <<"write">>]
     /\ UNCHANGED <<manager_vars, not_local_vars>>

\* ------------------------------------------------------------------- Init
Init ==
  /\ current_version = InitVersion
  /\ checkpoint_version = InitVersion
  /\ hummock_version_deltas = EmptyMap
  /\ pinned_versions = EmptyMap
  /\ pinned_snapshots = EmptyMap
  /\ ssts_to_delete = EmptyMap
  /\ compaction_statuses = [g \in Groups |-> EmptyMap]
  /\ compact_task_assignment = EmptyMap
  /\ max_committed_epoch = 0
  /\ meta_store = [hummock_version |-> InitVersion,
                   version_deltas |-> EmptyMap,
                   compact_statuses |-> [g \in Groups |-> EmptyMap],
                   compact_task_assignment |-> EmptyMap,
                   pinned_versions |-> EmptyMap,
                   pinned_snapshots |-> EmptyMap,
                   leader |-> LeaderInfo]
  /\ members = Contexts
  /\ snapshot_reads = EmptyMap
  /\ request_channel = NewChannel
  /\ uploader = NewUploader
  /\ sstable_store = NewSstableStore
  /\ merge = NoMerge
  /\ compaction = NoCompaction
  /\ compute_node = NoSubscriber
  /\ locks = NewLocks
  /\ local_version = NewLocalVersion
  /\ s3 = NewUpload
  /\ next_sst_id = 1
  /\ next_task_id = 1
  /\ sched = Idle
  /\ delivered = {}
  /\ version_ssts = [id \in {FIRST_VERSION_ID} |-> {}]
  /\ last = [op |-> "new", ret |-> "Ok", ctx |-> NoCtx, arg |-> 0, prev |-> "-",
             out |-> <<>>]

\* ============================================================= operations
\* ---------------------------------------------------------------- pinning
\* The deltas with id in ids, in ascending id order.
RECURSIVE DeltasInOrder(_, _)
DeltasInOrder(deltas, ids) ==
  IF ids = {} THEN <<>>
  ELSE <<deltas[Min(ids)]>> \o DeltasInOrder(deltas, ids \ {Min(ids)})

\* A range that includes its lower end.
DeltaRangeFrom(deltas, last_pinned, version_id) ==
  DeltasInOrder(deltas, {id \in DOMAIN deltas : id >= last_pinned /\ id <= version_id})

\* hummock_version_deltas.range((Excluded(last_pinned), Included(version_id)))
DeltaRange(deltas, last_pinned, version_id) ==
  DeltasInOrder(deltas, {id \in DOMAIN deltas : id > last_pinned /\ id <= version_id})

\* The payload pin_version returns.
PinPayload(last_pinned) ==
  LET version_id == current_version.id
  IN IF last_pinned <= version_id /\ last_pinned \in DOMAIN hummock_version_deltas
     THEN [payload |-> "VersionDeltas",
           delta |-> DeltaRange(hummock_version_deltas, last_pinned, version_id)]
     ELSE [payload |-> "PinnedVersion", pinned_version |-> current_version]

pin_version(context_id, last_pinned, io_ok) ==
  LET min_pinned_id == IF context_id \in DOMAIN pinned_versions
                       THEN pinned_versions[context_id] ELSE 0
      version_id == current_version.id
      res == commit_trx(context_id, io_ok)
  IN /\ IF min_pinned_id = 0 /\ res = "Ok"
        THEN /\ pinned_versions' = Put(pinned_versions, context_id, version_id)
             /\ meta_store' = [meta_store EXCEPT !.pinned_versions = Put(@, context_id, version_id)]
        ELSE UNCHANGED <<pinned_versions, meta_store>>
     /\ last' = CalledWith("pin_version", IF min_pinned_id = 0 THEN res ELSE "Ok", context_id,
                           last_pinned, <<PinPayload(last_pinned)>>)
     /\ UNCHANGED <<current_version, checkpoint_version, hummock_version_deltas,
                    pinned_snapshots, ssts_to_delete, max_committed_epoch,
                    compaction_vars, env_vars, version_ssts>>

unpin_version_before(context_id, unpin_before, io_ok) ==
  LET res == commit_trx(context_id, io_ok)
  IN /\ IF res = "Ok"
        THEN /\ pinned_versions' = Put(pinned_versions, context_id, unpin_before)
             /\ meta_store' = [meta_store EXCEPT !.pinned_versions = Put(@, context_id, unpin_before)]
        ELSE UNCHANGED <<pinned_versions, meta_store>>
     /\ last' = Called("unpin_version_before", res, context_id, 0)
     /\ UNCHANGED <<current_version, checkpoint_version, hummock_version_deltas,
                    pinned_snapshots, ssts_to_delete, max_committed_epoch,
                    compaction_vars, env_vars, version_ssts>>

unpin_version(context_id, io_ok) ==
  LET res == commit_trx(context_id, io_ok)
      present == context_id \in DOMAIN pinned_versions
  IN /\ IF present /\ res = "Ok"
        THEN /\ pinned_versions' = Del(pinned_versions, context_id)
             /\ meta_store' = [meta_store EXCEPT !.pinned_versions = Del(@, context_id)]
        ELSE UNCHANGED <<pinned_versions, meta_store>>
     /\ last' = Called("unpin_version", IF present THEN res ELSE "Ok", context_id, 0)
     /\ UNCHANGED <<current_version, checkpoint_version, hummock_version_deltas,
                    pinned_snapshots, ssts_to_delete, max_committed_epoch,
                    compaction_vars, env_vars, version_ssts>>

\* The transaction of pin_snapshot without its context check.
pin_snapshot_trx_any(context_id, io_ok) == commit_trx(NoCtx, io_ok)

\* commit_multi_var!(self, Some(context_id), context_pinned_snapshot)?
pin_snapshot_trx(context_id, io_ok) == commit_trx(context_id, io_ok)

\* What pin_snapshot returns: its transaction runs only for a context that holds no pin.
pin_snapshot_result(context_id, io_ok) ==
  LET pinned == IF context_id \in DOMAIN pinned_snapshots
                THEN pinned_snapshots[context_id] ELSE INVALID_EPOCH
  IN IF pinned = INVALID_EPOCH THEN pin_snapshot_trx(context_id, io_ok) ELSE "Ok"

\* pin_snapshot from the write lock on: `epoch` is what the call loaded from
\* max_committed_epoch before it took the lock.
pin_snapshot_locked(context_id, epoch, io_ok) ==
  LET pinned == IF context_id \in DOMAIN pinned_snapshots
                THEN pinned_snapshots[context_id] ELSE INVALID_EPOCH
      res == pin_snapshot_trx(context_id, io_ok)
  IN /\ IF pinned = INVALID_EPOCH /\ res = "Ok"
        THEN /\ pinned_snapshots' = Put(pinned_snapshots, context_id, epoch)
             /\ meta_store' = [meta_store EXCEPT !.pinned_snapshots = Put(@, context_id, epoch)]
        ELSE UNCHANGED <<pinned_snapshots, meta_store>>
     /\ UNCHANGED <<current_version, checkpoint_version, hummock_version_deltas,
                    pinned_versions, ssts_to_delete, max_committed_epoch,
                    compaction_vars, members, component_vars, next_sst_id, next_task_id, sched, delivered,
                    version_ssts>>

\* pin_snapshot with nothing between its load and its lock.
pin_snapshot(context_id, io_ok) ==
  /\ pin_snapshot_locked(context_id, max_committed_epoch, io_ok)
  /\ last' = CalledWith("pin_snapshot", pin_snapshot_result(context_id, io_ok), context_id, 0,
                        <<[epoch |-> max_committed_epoch]>>)
  /\ UNCHANGED snapshot_reads

\* let max_committed_epoch = self.max_committed_epoch.load(Ordering::Relaxed);
pin_snapshot_load(context_id) ==
  /\ context_id \notin DOMAIN snapshot_reads
  /\ snapshot_reads' = Put(snapshot_reads, context_id, max_committed_epoch)
  /\ last' = Called("load", "Ok", context_id, max_committed_epoch)
  /\ UNCHANGED <<versioning_vars, compaction_vars, meta_store, members, component_vars, next_sst_id,
                 next_task_id, sched, delivered, version_ssts>>

\* The rest of a pin_snapshot call that has loaded its epoch.
pin_snapshot_record(context_id, io_ok) ==
  /\ context_id \in DOMAIN snapshot_reads
  /\ pin_snapshot_locked(context_id, snapshot_reads[context_id], io_ok)
  /\ snapshot_reads' = Del(snapshot_reads, context_id)
  /\ last' = LET res == pin_snapshot_result(context_id, io_ok)
             IN [op |-> "pin_snapshot", ret |-> res, ctx |-> context_id, arg |-> 0, prev |-> "-",
                 out |-> IF res = "Ok" THEN <<[epoch |-> snapshot_reads[context_id]]>> ELSE <<>>]

unpin_snapshot(context_id, io_ok) ==
  LET res == commit_trx(context_id, io_ok)
      present == context_id \in DOMAIN pinned_snapshots
  IN /\ IF present /\ res = "Ok"
        THEN /\ pinned_snapshots' = Del(pinned_snapshots, context_id)
             /\ meta_store' = [meta_store EXCEPT !.pinned_snapshots = Del(@, context_id)]
        ELSE UNCHANGED <<pinned_snapshots, meta_store>>
     /\ last' = Called("unpin_snapshot", IF present THEN res ELSE "Ok", context_id, 0)
     /\ UNCHANGED <<current_version, checkpoint_version, hummock_version_deltas,
                    pinned_versions, ssts_to_delete, max_committed_epoch,
                    compaction_vars, env_vars, version_ssts>>

unpin_snapshot_before(context_id, snapshot_epoch, io_ok) ==
  LET mce == current_version.max_committed_epoch
      last_read_epoch == IF snapshot_epoch < mce THEN snapshot_epoch ELSE mce
      pinned == IF context_id \in DOMAIN pinned_snapshots
                THEN pinned_snapshots[context_id] ELSE INVALID_EPOCH
      update == pinned < last_read_epoch \/ pinned = INVALID_EPOCH
      res == commit_trx(context_id, io_ok)
  IN /\ IF update /\ res = "Ok"
        THEN /\ pinned_snapshots' = Put(pinned_snapshots, context_id, last_read_epoch)
             /\ meta_store' = [meta_store EXCEPT !.pinned_snapshots = Put(@, context_id, last_read_epoch)]
        ELSE UNCHANGED <<pinned_snapshots, meta_store>>
     /\ last' = Called("unpin_snapshot_before", IF update THEN res ELSE "Ok", context_id, 0)
     /\ UNCHANGED <<current_version, checkpoint_version, hummock_version_deltas,
                    pinned_versions, ssts_to_delete, max_committed_epoch,
                    compaction_vars, env_vars, version_ssts>>

\* ----------------------------------------------------------- commit_epoch
\* No check: every epoch passes.
EpochNotAfterNever(epoch, old_version) == FALSE

\* The check with < for <=: the committed epoch itself passes.
EpochNotAfterStrict(epoch, old_version) == epoch < old_version.max_committed_epoch

\* if epoch <= new_hummock_version.max_committed_epoch { return Err(..) }
EpochNotAfter(epoch, old_version) == epoch <= old_version.max_committed_epoch

\* The first entry of the delta map instead of the last.
FirstDelta(deltas) == deltas[Min(DOMAIN deltas)]

\* versioning.hummock_version_deltas.last_key_value().unwrap().1
LastDelta(deltas) == deltas[Max(DOMAIN deltas)]

\* What a successful commit_epoch sends, in order: the snapshot to the
\* frontends, the newest delta to the compute nodes, then
\* try_send_compaction_request for each entry of modified_compaction_groups.
CommitNotifications(epoch, deltas, modified_compaction_groups) ==
  <<[to |-> "frontend", info |-> "HummockSnapshot", epoch |-> epoch],
    [to |-> "compute", info |-> "HummockVersionDeltas",
     version_deltas |-> <<LastDelta(deltas)>>]>>
  \o [i \in DOMAIN modified_compaction_groups |->
        [to |-> "compaction_scheduler", info |-> "try_send",
         group |-> modified_compaction_groups[i]]]

\* A membership check that looks at no context.
InvalidSstsNone(sst_to_context) == {}

\* for (sst_id, context_id) in &sst_to_context:
\*   if !self.check_context(*context_id) { return Err(Error::InvalidSst(*sst_id)) }
InvalidSsts(sst_to_context) ==
  {sst_id \in DOMAIN sst_to_context : sst_to_context[sst_id] \notin members}

commit_epoch(epoch, sstables, sst_to_context, io_ok) ==
  LET invalid == InvalidSsts(sst_to_context)
      old_version == current_version
      new_version_delta == CommitEpochDelta(old_version, epoch, sstables)
      new_hummock_version == CommitEpochVersion(old_version, epoch, sstables)
      res == IF invalid # {} THEN "InvalidSst"
             ELSE IF EpochNotAfter(epoch, old_version) THEN "EpochRegression"
                  ELSE commit_trx(NoCtx, io_ok)
      chunks == GroupByCg(sstables)
      modified_compaction_groups == [i \in DOMAIN chunks |-> chunks[i].cg]
  IN /\ IF res = "Ok"
        THEN /\ hummock_version_deltas' =
                  Put(hummock_version_deltas, new_version_delta.id, new_version_delta)
             /\ meta_store' = [meta_store EXCEPT !.version_deltas =
                                 Put(@, new_version_delta.id, new_version_delta)]
             /\ current_version' = new_hummock_version
             /\ max_committed_epoch' = epoch
             /\ next_sst_id' = next_sst_id + Len(sstables)
             /\ version_ssts' = Put(version_ssts, new_hummock_version.id,
                                    VersionSstIds(new_hummock_version))
             /\ compute_node' = notify_compute(compute_node, new_version_delta)
             /\ request_channel' = SendRequests(request_channel, modified_compaction_groups)
        ELSE UNCHANGED <<hummock_version_deltas, meta_store, current_version,
                         max_committed_epoch, next_sst_id, version_ssts, compute_node,
                         request_channel>>
     /\ last' = LET called == CalledWith("commit_epoch", res, NoCtx, epoch,
                                         CommitNotifications(epoch, hummock_version_deltas',
                                                             modified_compaction_groups))
                IN IF called.op = "commit_epoch"
                   THEN [called EXCEPT !.ctx = {sst_to_context[sst_id] :
                                                  sst_id \in DOMAIN sst_to_context}]
                   ELSE called
     /\ UNCHANGED <<checkpoint_version, pinned_versions, pinned_snapshots, ssts_to_delete,
                    compaction_vars, members, not_notified_vars, snapshot_reads, next_task_id, sched, delivered>>

\* ------------------------------------------------- proceed_version_checkpoint
\* A range without its upper end: every delta after the old checkpoint.
CheckpointRangeUnbounded(deltas, old_checkpoint_id, new_checkpoint_id) ==
  {id \in DOMAIN deltas : id > old_checkpoint_id}

\* hummock_version_deltas.range((Excluded(old_checkpoint_id),
\*                               Included(new_checkpoint_id)))
CheckpointRange(deltas, old_checkpoint_id, new_checkpoint_id) ==
  {id \in DOMAIN deltas : id > old_checkpoint_id /\ id <= new_checkpoint_id}

proceed_version_checkpoint(io_ok) ==
  LET min_pinned == min_pinned_version_id(pinned_versions)
      old_checkpoint_id == checkpoint_version.id
      range == CheckpointRange(hummock_version_deltas, old_checkpoint_id, min_pinned)
      checkpoint == Replay(checkpoint_version, hummock_version_deltas, range)
      new_checkpoint_id == checkpoint.id
      noop == min_pinned <= old_checkpoint_id \/ new_checkpoint_id = old_checkpoint_id
      res == commit_trx(NoCtx, io_ok)
  IN /\ IF ~noop /\ res = "Ok"
        THEN /\ checkpoint_version' = checkpoint
             /\ meta_store' = [meta_store EXCEPT !.hummock_version = checkpoint]
             /\ ssts_to_delete' = extend_ssts_to_delete_from_deltas(
                   ssts_to_delete, hummock_version_deltas,
                   {id \in DOMAIN hummock_version_deltas :
                      id > old_checkpoint_id /\ id <= new_checkpoint_id})
        ELSE UNCHANGED <<checkpoint_version, meta_store, ssts_to_delete>>
     /\ last' = Called("proceed_version_checkpoint", IF noop THEN "Ok" ELSE res, NoCtx, 0)
     /\ UNCHANGED <<current_version, hummock_version_deltas, pinned_versions,
                    pinned_snapshots, max_committed_epoch, compaction_vars, env_vars,
                    version_ssts>>

\* ------------------------------------------------------- get_compact_task
\* watermark = min(pinned snapshots, max_committed_epoch of current_version).
Watermark ==
  Min({pinned_snapshots[c] : c \in DOMAIN pinned_snapshots}
      \cup {current_version.max_committed_epoch})

\* get_compact_task_impl up to the point where the task is known: nothing is
\* picked, or a trivial move is picked (applied by TrivialMove, with the
\* compaction lock still held), or a task is picked and compact_status is
\* committed.  The scheduler is the caller; it goes on to its send_task loop.
\* sched.pc is "repick" while the loop of get_compact_task is between two
\* calls of get_compact_task_impl, and sched.moved counts the trivial moves
\* the call has committed; a returning get_compact_task records it in `last`.
\* get_compact_task_impl returns before a task is picked: the id generator
\* fails on the store (generate(..).await?) or the picker has no task.
get_compact_task_none(io_ok) ==
  /\ sched.pc \in {"idle", "repick"}
  /\ sched' = Idle
  /\ last' = Called("get_compact_task", IF io_ok THEN "None" ELSE "MetaStoreError",
                    NoCtx, sched.moved)
  /\ request_channel' = SchedulerPicked(request_channel,
                                        IF io_ok THEN current_version.id ELSE INVALID_VERSION_ID,
                                        TRUE)
  /\ UNCHANGED <<versioning_vars, compaction_vars, meta_store, members, not_channel_vars, snapshot_reads, next_sst_id,
                 next_task_id, delivered, version_ssts>>

get_compact_task_pick(cg, picked, io_ok) ==
  LET compact_task == [picked EXCEPT !.watermark = Watermark]
      compact_status == StatusAddTask(compaction_statuses[cg], compact_task)
      res == commit_trx(NoCtx, io_ok)
  IN /\ sched.pc \in {"idle", "repick"}
     /\ next_task_id <= MaxTaskId
     /\ picked \in PickerCandidates(current_version.levels[cg], compaction_statuses[cg],
                                    next_task_id, cg)
     /\ is_trivial_move_task(compact_task) => current_version.id < MaxVersionId
     /\ IF is_trivial_move_task(compact_task)
        THEN /\ sched' = [sched EXCEPT !.pc = "trivial", !.task = compact_task,
                                       !.current_version = current_version]
             /\ next_task_id' = next_task_id + 1
             /\ last' = Called("get_compact_task_impl", "Trivial", NoCtx, compact_task.task_id)
             /\ UNCHANGED <<compaction_statuses, meta_store>>
        ELSE IF res = "Ok"
             THEN /\ compaction_statuses' = [compaction_statuses EXCEPT ![cg] = compact_status]
                  /\ meta_store' = [meta_store EXCEPT !.compact_statuses[cg] = compact_status]
                  /\ sched' = [Idle EXCEPT !.pc = "send_task", !.task = compact_task]
                  /\ next_task_id' = next_task_id + 1
                  /\ last' = Called("get_compact_task", "Some", NoCtx, sched.moved)
             ELSE /\ sched' = Idle
                  /\ last' = Called("get_compact_task", res, NoCtx, sched.moved)
                  /\ UNCHANGED <<compaction_statuses, meta_store, next_task_id>>
     /\ request_channel' = SchedulerPicked(request_channel, current_version.id,
                                           ~is_trivial_move_task(compact_task))
     /\ UNCHANGED <<versioning_vars, compact_task_assignment, members, not_channel_vars, snapshot_reads, next_sst_id,
                    delivered, version_ssts>>

\* A trivial move whose task keeps its empty output.
TrivialMoveTaskEmpty(compact_task) == compact_task

\* compact_task.sorted_output_ssts = compact_task.input_ssts[0].table_infos.clone();
TrivialMoveTask(compact_task) ==
  [compact_task EXCEPT !.sorted_output_ssts = compact_task.input_ssts[1].table_infos]

\* apply_version_delta(&mut hummock_version_deltas, &current_version, &compact_task, true)
TrivialMoveDelta(old_version, compact_task) ==
  apply_version_delta(old_version, compact_task, TRUE)

\* A new version that keeps the id of the old one.
TrivialMoveVersionOldId(compact_task, old_version) ==
  apply_compact_result(compact_task, old_version)

\* new_version = apply_compact_result(&compact_task, current_version), with
\* new_version.id = new_version_id
TrivialMoveVersion(compact_task, old_version) ==
  [apply_compact_result(compact_task, old_version) EXCEPT !.id = new_version_id(old_version)]

\* The version of the picker, used again for the move.
RegainNothing(read_version, newest_version) == read_version

\* let current_version = versioning_guard.current_version.clone(), under the
\* versioning write lock
RegainVersion(read_version, newest_version) == newest_version

\* The trivial-move branch: the version is read again under the versioning
\* write lock, the delta is committed alone, and the loop of get_compact_task
\* drives the picker again.
TrivialMove(io_ok) ==
  LET compact_task == TrivialMoveTask(sched.task)
      old_version == RegainVersion(sched.current_version, current_version)
      delta == TrivialMoveDelta(old_version, compact_task)
      new_version == TrivialMoveVersion(compact_task, old_version)
      res == commit_trx(NoCtx, io_ok)
  IN /\ sched.pc = "trivial"
     /\ current_version.id <= MaxVersionId
     /\ IF res = "Ok"
        THEN /\ hummock_version_deltas' = Put(hummock_version_deltas, delta.id, delta)
             /\ meta_store' = [meta_store EXCEPT !.version_deltas = Put(@, delta.id, delta)]
             /\ current_version' = new_version
             /\ version_ssts' = Put(version_ssts, new_version.id, VersionSstIds(new_version))
        ELSE UNCHANGED <<hummock_version_deltas, meta_store, current_version, version_ssts>>
     /\ sched' = IF res = "Ok"
                 THEN [Idle EXCEPT !.pc = "repick", !.moved = sched.moved + 1,
                                   !.current_version = sched.current_version]
                 ELSE Idle
     /\ last' = IF res = "Ok"
                THEN Called("get_compact_task_impl", "Moved", NoCtx, compact_task.task_id)
                ELSE Called("get_compact_task", res, NoCtx, sched.moved)
     /\ request_channel' = IF res = "Ok" THEN request_channel
                           ELSE SchedulerPicked(request_channel, INVALID_VERSION_ID, TRUE)
     /\ UNCHANGED <<checkpoint_version, pinned_versions, pinned_snapshots, ssts_to_delete,
                    max_committed_epoch, compaction_vars, members, not_channel_vars, snapshot_reads, next_sst_id,
                    next_task_id, delivered>>

\* ------------------------------------------------- assign_compaction_task
\* A lookup that never finds the assignment.
AlreadyAssignedNever(assignment, task_id) == FALSE

\* if let Some(assignment) = compact_task_assignment.get(&compact_task.task_id)
AlreadyAssigned(assignment, task_id) == task_id \in DOMAIN assignment

assign_compaction_task(compact_task, assignee_context_id, io_ok) ==
  LET res == IF AlreadyAssigned(compact_task_assignment, compact_task.task_id)
             THEN "CompactionTaskAlreadyAssigned"
             ELSE commit_trx(assignee_context_id, io_ok)
      assignment == [compact_task |-> compact_task, context_id |-> assignee_context_id]
  IN /\ IF res = "Ok"
        THEN /\ compact_task_assignment' =
                  Put(compact_task_assignment, compact_task.task_id, assignment)
             /\ meta_store' = [meta_store EXCEPT !.compact_task_assignment =
                                 Put(@, compact_task.task_id, assignment)]
        ELSE UNCHANGED <<compact_task_assignment, meta_store>>
     /\ last' = Called("assign_compaction_task", res, assignee_context_id, compact_task.task_id)
     /\ UNCHANGED <<versioning_vars, compaction_statuses, version_ssts>>

\* ------------------------------------------------ report_compact_task_impl
\* An assignee check without its None arm: a task that has no assignment
\* passes.
WrongReporterMismatchOnly(context_id, assignee_context_id) ==
  context_id # NoCtx /\ assignee_context_id # NoCtx /\ assignee_context_id # context_id

\* An assignee check without its Some arm: any reporter of an assigned task
\* passes.
WrongReporterAbsentOnly(context_id, assignee_context_id) ==
  context_id # NoCtx /\ assignee_context_id = NoCtx

\* The assignee check: a reporter that is not the assignee, or a task that has
\* no assignment; cancel_compact_task passes no context_id and is not checked.
WrongReporter(context_id, assignee_context_id) ==
  context_id # NoCtx /\ assignee_context_id # context_id

\* A status test that takes every reported task for a finished one.
TaskFinishedAlways(compact_task) == TRUE

\* if compact_task.task_status { the task is finished } else { cancelled }
TaskFinished(compact_task) == compact_task.task_status

\* context_id is NoCtx for cancel_compact_task.
\* apply_version_delta(&mut hummock_version_deltas, &old_version, compact_task, false)
ReportDelta(old_version, compact_task) ==
  apply_version_delta(old_version, compact_task, FALSE)

\* new_version = apply_compact_result(compact_task, old_version), with
\* new_version.id = new_version_id
ReportVersion(compact_task, old_version) ==
  [apply_compact_result(compact_task, old_version) EXCEPT !.id = new_version_id(old_version)]

report_compact_task_impl(context_id, compact_task, io_ok, op) ==
  LET task_id == compact_task.task_id
      cg == compact_task.compaction_group_id
      assignee_context_id == IF task_id \in DOMAIN compact_task_assignment
                             THEN compact_task_assignment[task_id].context_id ELSE NoCtx
      wrong == WrongReporter(context_id, assignee_context_id)
      compact_status == CompactStatus_report_compact_task(compaction_statuses[cg], compact_task)
      old_version == current_version
      delta == ReportDelta(old_version, compact_task)
      new_version == ReportVersion(compact_task, old_version)
      res == commit_trx(assignee_context_id, io_ok)
  IN IF wrong
     THEN /\ last' = Called(op, "OkFalse", context_id, task_id)
          /\ UNCHANGED <<versioning_vars, compaction_vars, meta_store, version_ssts,
                         compute_node, request_channel>>
     ELSE IF res # "Ok"
          THEN /\ last' = Called(op, res, context_id, task_id)
               /\ UNCHANGED <<versioning_vars, compaction_vars, meta_store, version_ssts,
                              compute_node, request_channel>>
          ELSE /\ last' = Called(op, "OkTrue", context_id, task_id)
               /\ request_channel' = try_send_compaction_request(request_channel, cg)
               /\ compute_node' = IF TaskFinished(compact_task)
                                  THEN notify_compute(compute_node, delta)
                                  ELSE compute_node
               /\ compaction_statuses' = [compaction_statuses EXCEPT ![cg] = compact_status]
               /\ compact_task_assignment' = Del(compact_task_assignment, task_id)
               /\ UNCHANGED <<checkpoint_version, pinned_versions, pinned_snapshots,
                              ssts_to_delete, max_committed_epoch>>
               /\ IF TaskFinished(compact_task)
                  THEN /\ hummock_version_deltas' = Put(hummock_version_deltas, delta.id, delta)
                       /\ current_version' = new_version
                       /\ version_ssts' = Put(version_ssts, new_version.id,
                                              VersionSstIds(new_version))
                       /\ meta_store' = [meta_store EXCEPT
                            !.compact_statuses[cg] = compact_status,
                            !.compact_task_assignment = Del(@, task_id),
                            !.version_deltas = Put(@, delta.id, delta)]
                  ELSE /\ meta_store' = [meta_store EXCEPT
                            !.compact_statuses[cg] = compact_status,
                            !.compact_task_assignment = Del(@, task_id)]
                       /\ UNCHANGED <<hummock_version_deltas, current_version, version_ssts>>

\* ------------------------------------------ scheduler: pick_and_assign
\* 2.1/2.2: next_idle_compactor gives `compactor`, then assign_compaction_task;
\* any error continues the send_task loop.
SchedAssign(compactor, io_ok) ==
  /\ sched.pc = "send_task"
  /\ assign_compaction_task(sched.task, compactor, io_ok)
  /\ sched' = IF last'.ret = "Ok"
              THEN [sched EXCEPT !.pc = "assigned", !.compactor = compactor]
              ELSE sched
  /\ UNCHANGED <<members, component_vars, snapshot_reads, next_sst_id, next_task_id, delivered>>

\* 2.1, no idle compactor: cancel the task; a failed cancel continues the loop.
SchedNoIdleCompactor(io_ok) ==
  /\ sched.pc = "send_task"
  /\ report_compact_task_impl(NoCtx, [sched.task EXCEPT !.task_status = FALSE],
                              io_ok, "cancel_compact_task")
  /\ sched' = IF last'.ret \in {"OkTrue", "OkFalse"} THEN Idle
              ELSE [sched EXCEPT !.task.task_status = FALSE]
  /\ UNCHANGED <<members, not_notified_vars, snapshot_reads, next_sst_id, next_task_id, delivered>>

\* 2.3: the task reaches the compactor.
SchedSendOk ==
  /\ sched.pc = "assigned"
  /\ delivered' = delivered \cup {[ctx |-> sched.compactor, task |-> sched.task]}
  /\ sched' = Idle
  /\ last' = Called("send_task", "Ok", sched.compactor, sched.task.task_id)
  /\ request_channel' = try_send_compaction_request(request_channel,
                                                     sched.task.compaction_group_id)
  /\ UNCHANGED <<versioning_vars, compaction_vars, meta_store, members, not_channel_vars, snapshot_reads, next_sst_id,
                 next_task_id, version_ssts>>

\* 2.3: send_task fails: the task is reported failed for the compactor and the
\* loop continues with the same task, or returns if the report fails.
SchedSendFail(io_ok) ==
  /\ sched.pc = "assigned"
  /\ report_compact_task_impl(sched.compactor, [sched.task EXCEPT !.task_status = FALSE],
                              io_ok, "report_compact_task")
  /\ sched' = IF last'.ret \in {"OkTrue", "OkFalse"}
              THEN [Idle EXCEPT !.pc = "send_task",
                                !.task = [sched.task EXCEPT !.task_status = FALSE]]
              ELSE Idle
  /\ UNCHANGED <<members, not_notified_vars, snapshot_reads, next_sst_id, next_task_id, delivered>>

\* ------------------------------------------------------------- compactors
\* The compact task a compactor reports: failed, or finished with one new SST
\* that spans the inputs.
TaskSpanLo(task) == Min({InputSsts(task.input_ssts)[i].l : i \in DOMAIN InputSsts(task.input_ssts)})
TaskSpanHi(task) == Max({InputSsts(task.input_ssts)[i].r : i \in DOMAIN InputSsts(task.input_ssts)})

Finished(task, sst_id) ==
  [task EXCEPT !.task_status = TRUE,
               !.sorted_output_ssts = <<SstInfo(sst_id, TaskSpanLo(task), TaskSpanHi(task))>>]

KnownTasks ==
  {d.task : d \in delivered}
  \cup {compact_task_assignment[t].compact_task : t \in DOMAIN compact_task_assignment}

Assignee(task_id) ==
  IF task_id \in DOMAIN compact_task_assignment
  THEN compact_task_assignment[task_id].context_id ELSE NoCtx

\* report_compact_task(context_id, task) over the RPC.  The call may be
\* repeated until it is answered Ok(false): then the reporter drops the task.
ReportCompactTask(context_id, task, success, io_ok) ==
  /\ sched.pc # "trivial"
  /\ task \in KnownTasks
  /\ success => current_version.id < MaxVersionId
  /\ report_compact_task_impl(context_id,
        IF success THEN Finished(task, next_sst_id) ELSE [task EXCEPT !.task_status = FALSE],
        io_ok, "report_compact_task")
  /\ next_sst_id' = IF success /\ last'.ret = "OkTrue" THEN next_sst_id + 1 ELSE next_sst_id
  /\ delivered' = IF last'.ret = "OkFalse"
                  THEN delivered \ {[ctx |-> context_id, task |-> task]}
                  ELSE delivered
  /\ UNCHANGED <<members, not_notified_vars, snapshot_reads, next_task_id, sched>>

\* ---------------------------------------------------- HummockManager::new
\* A test that finds no pending task unassigned.
UnassignedNone(status, assignment) == {}

\* |pending_task_id| !compaction.compact_task_assignment.contains_key(&pending_task_id)
Unassigned(status, assignment) == {t \in DOMAIN status : t \notin DOMAIN assignment}

\* cancelled_count: the tasks cancel_compaction_tasks_if cancels, over the groups.
RECURSIVE SumCancelled(_, _, _)
SumCancelled(statuses, assignment, groups) ==
  IF groups = {} THEN 0
  ELSE Cardinality(Unassigned(statuses[Min(groups)], assignment))
       + SumCancelled(statuses, assignment, groups \ {Min(groups)})

\* A restart on the persisted store: load_meta_store_state, then
\* release_invalid_contexts, cancel_unassigned_compaction_task.
Restart ==
  LET loaded == load_meta_store_state_impl(meta_store)
      valid_pins == [c \in (DOMAIN loaded.pinned_versions) \cap members |->
                       loaded.pinned_versions[c]]
      valid_snapshots == [c \in (DOMAIN loaded.pinned_snapshots) \cap members |->
                            loaded.pinned_snapshots[c]]
      statuses == [g \in Groups |->
                     cancel_compaction_tasks_if(loaded.compaction_statuses[g],
                        Unassigned(loaded.compaction_statuses[g],
                                   loaded.compact_task_assignment))]
      cancelled_count == SumCancelled(loaded.compaction_statuses,
                                      loaded.compact_task_assignment, Groups)
  IN /\ meta_store.leader = LeaderInfo
     /\ current_version' = loaded.current_version
     /\ checkpoint_version' = loaded.checkpoint_version
     /\ hummock_version_deltas' = loaded.hummock_version_deltas
     /\ pinned_versions' = valid_pins
     /\ pinned_snapshots' = valid_snapshots
     /\ ssts_to_delete' = loaded.ssts_to_delete
     /\ compaction_statuses' = statuses
     /\ compact_task_assignment' = loaded.compact_task_assignment
     /\ max_committed_epoch' = loaded.max_committed_epoch
     /\ meta_store' = [meta_store EXCEPT !.pinned_versions = valid_pins,
                                         !.pinned_snapshots = valid_snapshots,
                                         !.compact_statuses = statuses]
     /\ sched' = Idle
     /\ last' = Called("new", "Ok", NoCtx, cancelled_count)
     /\ UNCHANGED <<members, component_vars, snapshot_reads, next_sst_id, next_task_id, delivered, version_ssts>>

\* HummockManager::new on a store that may hold nothing yet.  The manager
\* under construction has Default::default() for its state: no statuses and
\* a version with id INVALID_VERSION_ID; the same version stands in the store
\* for an empty list of versions.  `io_status` and `io_version` are whether
\* the store accepts the write of the statuses and of the first version.
DefaultVersion ==
  [id |-> INVALID_VERSION_ID,
   levels |-> [g \in Groups |-> EmptyLevels],
   max_committed_epoch |-> INVALID_EPOCH,
   safe_epoch |-> INVALID_EPOCH]

Constructed == current_version.id # INVALID_VERSION_ID

\* init_version.insert(self.env.meta_store()).await?
InsertInitVersion(io_ok) == IF io_ok THEN "Ok" ELSE "MetaStoreError"

New(io_status, io_version) ==
  LET statuses_empty == meta_store.compact_statuses = EmptyMap
      res_status == IF statuses_empty THEN commit_trx(NoCtx, io_status) ELSE "Ok"
      with_status == IF statuses_empty /\ res_status = "Ok"
                     THEN [meta_store EXCEPT !.compact_statuses = [g \in Groups |-> EmptyMap]]
                     ELSE meta_store
      versions_empty == meta_store.hummock_version = DefaultVersion
      res_version == IF versions_empty THEN InsertInitVersion(io_version) ELSE "Ok"
      with_version == IF versions_empty /\ res_version = "Ok"
                      THEN [with_status EXCEPT !.hummock_version = InitVersion]
                      ELSE with_status
      loaded == load_meta_store_state_impl(with_version)
  IN /\ ~Constructed
     /\ IF res_status # "Ok"
        THEN /\ last' = Called("new", res_status, NoCtx, 0)
             /\ UNCHANGED <<versioning_vars, compaction_vars, meta_store>>
        ELSE /\ meta_store' = with_version
             /\ IF res_version # "Ok"
                THEN /\ last' = Called("new", res_version, NoCtx, 0)
                     /\ UNCHANGED <<versioning_vars, compaction_vars>>
                ELSE /\ current_version' = loaded.current_version
                     /\ checkpoint_version' = loaded.checkpoint_version
                     /\ hummock_version_deltas' = loaded.hummock_version_deltas
                     /\ pinned_versions' = loaded.pinned_versions
                     /\ pinned_snapshots' = loaded.pinned_snapshots
                     /\ ssts_to_delete' = loaded.ssts_to_delete
                     /\ compaction_statuses' = loaded.compaction_statuses
                     /\ compact_task_assignment' = loaded.compact_task_assignment
                     /\ max_committed_epoch' = loaded.max_committed_epoch
                     /\ last' = Called("new", "Ok", NoCtx, 0)
     /\ UNCHANGED <<env_vars, version_ssts>>

\* The state before the first HummockManager::new: an empty store that names
\* this node as the leader.
InitFresh ==
  /\ current_version = DefaultVersion
  /\ checkpoint_version = DefaultVersion
  /\ hummock_version_deltas = EmptyMap
  /\ pinned_versions = EmptyMap
  /\ pinned_snapshots = EmptyMap
  /\ ssts_to_delete = EmptyMap
  /\ compaction_statuses = EmptyMap
  /\ compact_task_assignment = EmptyMap
  /\ max_committed_epoch = 0
  /\ meta_store = [hummock_version |-> DefaultVersion,
                   version_deltas |-> EmptyMap,
                   compact_statuses |-> EmptyMap,
                   compact_task_assignment |-> EmptyMap,
                   pinned_versions |-> EmptyMap,
                   pinned_snapshots |-> EmptyMap,
                   leader |-> LeaderInfo]
  /\ members = Contexts
  /\ snapshot_reads = EmptyMap
  /\ request_channel = NewChannel
  /\ uploader = NewUploader
  /\ sstable_store = NewSstableStore
  /\ merge = NoMerge
  /\ compaction = NoCompaction
  /\ compute_node = NoSubscriber
  /\ locks = NewLocks
  /\ local_version = NewLocalVersion
  /\ s3 = NewUpload
  /\ next_sst_id = 1
  /\ next_task_id = 1
  /\ sched = Idle
  /\ delivered = {}
  /\ version_ssts = [id \in {FIRST_VERSION_ID} |-> {}]
  /\ last = [op |-> "-", ret |-> "Ok", ctx |-> NoCtx, arg |-> 0, prev |-> "-", out |-> <<>>]

\* ------------------------------------------------------------ environment
WorkerLeave(context_id) ==
  /\ context_id \in members
  /\ members' = members \ {context_id}
  /\ last' = Called("worker_leave", "Ok", context_id, 0)
  /\ UNCHANGED <<versioning_vars, compaction_vars, meta_store, component_vars, snapshot_reads,
                 next_sst_id, next_task_id, sched, delivered, version_ssts>>

LeaderChange ==
  /\ meta_store.leader = LeaderInfo
  /\ meta_store' = [meta_store EXCEPT !.leader = "other"]
  /\ last' = Called("leader_change", "Ok", NoCtx, 0)
  /\ UNCHANGED <<versioning_vars, compaction_vars, env_vars, version_ssts>>

\* ------------------------------------------------------------------- Next
Reliable == {TRUE}                 \* the store accepts every write
Flaky == BOOLEAN                   \* the store may refuse a write
Unregistered == Max(Contexts) + 1                  \* a context id that is no worker's

\* Epochs offered to commit_epoch: below, at and above the committed one.
EpochOffers ==
  {e \in (current_version.max_committed_epoch - 1)..(current_version.max_committed_epoch + 1) :
     e >= 0}

\* The compaction group of the single-SST commits.
CommitGroups == {Min(Groups)}

\* A compute node commits an epoch with one SST of one key.
CommitEpoch(Cs, Ks, Io) ==
  \E epoch \in EpochOffers, cg \in CommitGroups, k \in Ks, c \in Cs, io_ok \in Io :
    /\ current_version.id < MaxVersionId
    /\ commit_epoch(epoch, <<<<cg, SstInfo(next_sst_id, k, k)>>>>,
                    [s \in {next_sst_id} |-> c], io_ok)

\* A compute node commits an epoch with up to MaxCommitSsts SSTs, spread over
\* the compaction groups in any order; the SSTs of `bad` come from a context
\* that is no worker.
CommitEpochMany(Io) ==
  \E epoch \in EpochOffers, n \in 0..MaxCommitSsts, io_ok \in Io :
    \E gs \in [1..n -> Groups], bad \in SUBSET (1..n) :
      /\ current_version.id < MaxVersionId
      /\ commit_epoch(epoch,
                      [i \in 1..n |-> <<gs[i], SstInfo(next_sst_id + i - 1, 1, 1)>>],
                      [sst_id \in next_sst_id..(next_sst_id + n - 1) |->
                         IF sst_id - next_sst_id + 1 \in bad THEN Unregistered
                         ELSE Min(Contexts)],
                      io_ok)

\* A worker that knows no version pins the current one.
PinVersion(Cs, Io) == \E c \in Cs, io_ok \in Io : pin_version(c, INVALID_VERSION_ID, io_ok)

\* A worker that last saw the version last_pinned pins the current one.
PinVersionFrom(Cs, Io) ==
  \E c \in Cs, last_pinned \in INVALID_VERSION_ID..(current_version.id + 1), io_ok \in Io :
    pin_version(c, last_pinned, io_ok)

UnpinVersionBefore(Cs, Io) ==
  \E c \in Cs, id \in checkpoint_version.id..current_version.id, io_ok \in Io :
    unpin_version_before(c, id, io_ok)

UnpinVersion(Cs, Io) == \E c \in Cs, io_ok \in Io : unpin_version(c, io_ok)

PinSnapshot(Cs, Io) == \E c \in Cs, io_ok \in Io : pin_snapshot(c, io_ok)

\* A pin_snapshot call loads the committed epoch, and later takes the lock.
PinSnapshotLoad(Cs) == \E c \in Cs : pin_snapshot_load(c)

PinSnapshotRecord(Cs, Io) == \E c \in Cs, io_ok \in Io : pin_snapshot_record(c, io_ok)

UnpinSnapshot(Cs, Io) == \E c \in Cs, io_ok \in Io : unpin_snapshot(c, io_ok)

\* `Back` is how far behind the committed epoch the caller's epoch may be.
UnpinSnapshotBefore(Cs, Back, Io) ==
  \E c \in Cs, e \in 0..(current_version.max_committed_epoch + 1), io_ok \in Io :
    /\ current_version.max_committed_epoch - e \in Back
    /\ unpin_snapshot_before(c, e, io_ok)

ProceedVersionCheckpoint(Io) == \E io_ok \in Io : proceed_version_checkpoint(io_ok)

GetCompactTask(Io) ==
  \/ \E io_ok \in Io : get_compact_task_none(io_ok)
  \/ \E cg \in Groups, io_ok \in Io :
       \E picked \in PickerCandidates(current_version.levels[cg], compaction_statuses[cg],
                                      next_task_id, cg) :
         get_compact_task_pick(cg, picked, io_ok)

ApplyTrivialMove(Io) == \E io_ok \in Io : TrivialMove(io_ok)

Assign(Cs, Io) == \E c \in Cs, io_ok \in Io : SchedAssign(c, io_ok)

\* assign_compaction_task called again for a task that has an assignment.
AssignAgain(Cs, Io) ==
  \E t \in DOMAIN compact_task_assignment, c \in Cs, io_ok \in Io :
    /\ assign_compaction_task(compact_task_assignment[t].compact_task, c, io_ok)
    /\ UNCHANGED env_vars

NoIdleCompactor(Io) == \E io_ok \in Io : SchedNoIdleCompactor(io_ok)

SendFail(Io) == \E io_ok \in Io : SchedSendFail(io_ok)

\* A compactor reports a task it has received.
CompactorReport(Io) ==
  \E d \in delivered, success \in BOOLEAN, io_ok \in Io :
    ReportCompactTask(d.ctx, d.task, success, io_ok)

\* A context that is not the assignee reports a task.
WrongReport(Io) ==
  \E c \in Contexts, task \in KnownTasks, success \in BOOLEAN, io_ok \in Io :
    /\ Assignee(task.task_id) # c
    /\ ReportCompactTask(c, task, success, io_ok)

Leave == \E c \in Contexts : WorkerLeave(c)

Next ==
  \/ CommitEpoch(Pinners, Keys, Flaky)
  \/ PinVersion(Pinners, Flaky)
  \/ UnpinVersionBefore(Pinners, Flaky)
  \/ UnpinVersion(Pinners, Flaky)
  \/ PinSnapshot(Pinners, Flaky)
  \/ UnpinSnapshot(Pinners, Flaky)
  \/ UnpinSnapshotBefore(Pinners, Int, Flaky)
  \/ ProceedVersionCheckpoint(Flaky)
  \/ GetCompactTask(Flaky)
  \/ ApplyTrivialMove(Flaky)
  \/ Assign(Contexts, Flaky)
  \/ AssignAgain(Contexts, Flaky)
  \/ NoIdleCompactor(Flaky)
  \/ SchedSendOk
  \/ SendFail(Flaky)
  \/ CompactorReport(Flaky)
  \/ WrongReport(Flaky)
  \/ Restart
  \/ Leave
  \/ LeaderChange

Spec == Init /\ [][Next]_vars

\* The scheduler, the compactors and commits.
NextSched ==
  \/ CommitEpoch(Pinners, Keys, Reliable)
  \/ GetCompactTask(Reliable)
  \/ ApplyTrivialMove(Reliable)
  \/ Assign(Contexts, Flaky)
  \/ AssignAgain(Contexts, Reliable)
  \/ NoIdleCompactor(Flaky)
  \/ SchedSendOk
  \/ SendFail(Flaky)
  \/ CompactorReport(Reliable)
  \/ WrongReport(Reliable)

SpecSched == Init /\ [][NextSched]_vars

\* The scheduler with compactors that may be no workers and a store that
\* may refuse the assignment; every other call succeeds.
NextAssign ==
  \/ CommitEpoch(Pinners, Keys, Reliable)
  \/ GetCompactTask(Reliable)
  \/ ApplyTrivialMove(Reliable)
  \/ Assign(Contexts \cup {Unregistered}, Flaky)
  \/ SchedSendOk
  \/ SendFail(Reliable)
  \/ CompactorReport(Reliable)

SpecAssign == Init /\ [][NextAssign]_vars

\* The version chain: commits, compaction results, pins, checkpoints, restarts.
NextVersion ==
  \/ CommitEpoch(Pinners, Keys, Reliable)
  \/ PinVersion(Pinners, Reliable)
  \/ UnpinVersionBefore(Pinners, Reliable)
  \/ UnpinVersion(Pinners, Reliable)
  \/ ProceedVersionCheckpoint(Reliable)
  \/ GetCompactTask(Reliable)
  \/ ApplyTrivialMove(Reliable)
  \/ Assign(Contexts \ Pinners, Reliable)
  \/ SchedSendOk
  \/ CompactorReport(Reliable)
  \/ Restart

SpecVersion == Init /\ [][NextVersion]_vars

\* Every operation that writes to the meta store, with a store that may
\* refuse the write and callers that are no workers.
NextTxn ==
  \/ CommitEpoch(Pinners \cup {Unregistered}, {1}, Flaky)
  \/ PinVersion(Pinners \cup {Unregistered}, Flaky)
  \/ UnpinVersionBefore(Pinners, Flaky)
  \/ UnpinVersion(Pinners, Flaky)
  \/ PinSnapshot(Pinners, Flaky)
  \/ UnpinSnapshot(Pinners, Flaky)
  \/ UnpinSnapshotBefore(Pinners, {0}, Flaky)
  \/ ProceedVersionCheckpoint(Flaky)
  \/ GetCompactTask(Flaky)
  \/ ApplyTrivialMove(Flaky)
  \/ Assign({1, Unregistered}, Flaky)
  \/ NoIdleCompactor(Flaky)
  \/ SchedSendOk
  \/ CompactorReport(Flaky)

SpecTxn == Init /\ [][NextTxn]_vars

\* The manager from its first construction on, with a store that may refuse
\* a write and a leader key that may change hands.
NextLeader ==
  \/ \E io_status \in Flaky, io_version \in Flaky : New(io_status, io_version)
  \/ LeaderChange
  \/ Constructed /\ CommitEpoch(Pinners, {1}, Reliable)
  \/ Constructed /\ PinVersion(Pinners, Reliable)
  \/ Constructed /\ UnpinVersion(Pinners, Reliable)
  \/ Constructed /\ PinSnapshot(Pinners, Reliable)
  \/ Constructed /\ ProceedVersionCheckpoint(Reliable)
  \/ Constructed /\ GetCompactTask(Reliable)

SpecLeader == InitFresh /\ [][NextLeader]_vars

\* The group ids a caller may pass to try_send: the channel takes any id,
\* also one that is no compaction group's.
RequestGroups == Groups \cup {Max(Groups) + 1}

\* Requests for compaction from any caller, and the scheduler that takes them.
NextChannel ==
  \/ \E g \in RequestGroups : try_send(g)
  \/ recv
  \/ unschedule
  \/ shutdown

SpecChannel == Init /\ [][NextChannel]_vars

\* One streaming upload: writes, part uploads that end in any order, finish.
NextUpload ==
  \/ \E data_len \in WriteLens : write_bytes(data_len)
  \/ \E i \in DOMAIN uploader.join_handles, ok \in BOOLEAN : part_upload(i, ok)
  \/ \E abort_ok \in BOOLEAN, put_ok \in BOOLEAN : finish_start(abort_ok, put_ok)
  \/ \E complete_ok \in BOOLEAN, abort_ok \in BOOLEAN : finish_join(complete_ok, abort_ok)

SpecUpload == Init /\ [][NextUpload]_vars

\* One SstableStore: SSTs are put once, read under every policy, deleted.
NextStore ==
  \/ \E sst_id \in StoreSstIds, policy \in CachePolicy, data_ok, meta_ok, delete_ok \in BOOLEAN :
       put_sst(sst_id, policy, data_ok, meta_ok, delete_ok)
  \/ \E sst_id \in StoreSstIds, finish_ok, meta_ok, delete_ok \in BOOLEAN :
       finish_put_sst_stream(sst_id, finish_ok, meta_ok, delete_ok)
  \/ \E sst_id \in StoreSstIds, block_index \in BlockIndexes, policy \in CachePolicy :
       get(sst_id, block_index, policy)
  \/ \E sst_id \in StoreSstIds, meta_delete_ok, data_delete_ok \in BOOLEAN :
       delete(sst_id, meta_delete_ok, data_delete_ok)
  \/ \E sst_id \in StoreSstIds : sstable(sst_id)

SpecStore == Init /\ [][NextStore]_vars

\* One merge of every input over two user keys.
NextMerge ==
  \E versions \in [UserKeys -> VersionSets], kr_right \in {NoKey, Max(UserKeys)},
     gc_delete_keys \in BOOLEAN, watermark \in Watermarks, filter \in {{}, {Min(UserKeys)}} :
    compact_and_build_sst(MergedInput(versions, UserKeys), kr_right, gc_delete_keys,
                          watermark, filter)

SpecMerge == Init /\ [][NextMerge]_vars

\* One compactor that handles its tasks one after the other.
NextCompactor ==
  \/ \E parallelism \in 1..MaxSplits, tracker_ok \in BOOLEAN :
       compact_start(parallelism, tracker_ok)
  \/ \E i \in 1..MaxSplits, result \in {"ok", "err", "join_err"}, n \in 0..MaxSplitSsts :
       runner_finish(i, result, n)
  \/ \E report_ok \in BOOLEAN : compact_finish(report_ok)

SpecCompactor == Init /\ [][NextCompactor]_vars

\* Threads of one worker that fold in the payloads they have received.
NextLocal ==
  \/ \E t \in LocalThreads, payload \in Payloads : try_update_pinned_version_read(t, payload)
  \/ \E t \in LocalThreads : try_update_pinned_version_write(t)

SpecLocal == Init /\ [][NextLocal]_vars

\* One turn of the 'send_task loop of pick_and_assign, whatever its outcome.
SendTaskLoop ==
  \/ Assign(Contexts, Flaky)
  \/ NoIdleCompactor(Flaky)
  \/ SchedSendOk
  \/ SendFail(Flaky)

\* The scheduler task is polled as long as it has a turn to take: the loop
\* awaits only calls that return.
NextSendTask ==
  \/ CommitEpoch(Pinners, {1}, Reliable)
  \/ GetCompactTask(Reliable)
  \/ ApplyTrivialMove(Reliable)
  \/ SendTaskLoop
  \/ CompactorReport(Reliable)

SpecSendTask == Init /\ [][NextSendTask]_vars /\ WF_vars(SendTaskLoop)

\* A compute node subscribes while epochs are committed and tasks compacted.
NextNotify ==
  \/ subscribe
  \/ CommitEpoch(Pinners, {1}, Reliable)
  \/ GetCompactTask(Reliable)
  \/ ApplyTrivialMove(Reliable)
  \/ Assign(Contexts \ Pinners, Reliable)
  \/ SchedSendOk
  \/ CompactorReport(Reliable)

SpecNotify == Init /\ [][NextNotify]_vars

\* CompactionScheduler::start after set_compaction_scheduler: a request is
\* received, pick_and_assign calls get_compact_task for its group, unschedules
\* the group, and assigns and sends the task.
SchedulerRecv == sched.pc = "idle" /\ recv

SchedulerPick ==
  /\ request_channel.compaction_group \in Groups
  /\ ~request_channel.returned
  /\ \/ get_compact_task_none(TRUE)
     \/ \E picked \in PickerCandidates(
                          current_version.levels[request_channel.compaction_group],
                          compaction_statuses[request_channel.compaction_group],
                          next_task_id, request_channel.compaction_group) :
          get_compact_task_pick(request_channel.compaction_group, picked, TRUE)

SchedulerUnschedule == request_channel.returned /\ unschedule

SchedulerAssign ==
  /\ request_channel.compaction_group = NoGroup
  /\ Assign(Contexts \ Pinners, Reliable)

SchedulerTurn ==
  \/ SchedulerRecv
  \/ SchedulerPick
  \/ ApplyTrivialMove(Reliable)
  \/ SchedulerUnschedule
  \/ SchedulerAssign
  \/ SchedSendOk

\* The scheduler runs while epochs are committed and compactors report; its
\* task is polled whenever it has a turn to take.
NextRequests ==
  \/ start
  \/ CommitEpoch(Pinners, {1}, Reliable)
  \/ SchedulerTurn
  \/ CompactorReport(Reliable)

SpecRequests == Init /\ [][NextRequests]_vars /\ WF_vars(SchedulerTurn)

\* Threads that call into the manager and take its locks.
NextLocks ==
  \/ \E t \in LockThreads, op \in LockCalls : lock_call(t, op)
  \/ \E t \in LockThreads : lock_request(t)
  \/ \E t \in LockThreads : lock_grant(t)
  \/ \E t \in LockThreads : lock_drop(t)

SpecLocks == Init /\ [][NextLocks]_vars

\* Workers that pin from every version id they may have seen.
NextPin ==
  \/ CommitEpoch(Pinners, {1}, Reliable)
  \/ PinVersionFrom(Pinners \cup {Unregistered}, Flaky)
  \/ UnpinVersion(Pinners, Reliable)
  \/ ProceedVersionCheckpoint(Reliable)

SpecPin == Init /\ [][NextPin]_vars

\* pin_snapshot calls of members and of a worker that is none, interleaved
\* with commits between their load and their lock.
NextSnapshot ==
  \/ CommitEpoch(Pinners, {1}, Reliable)
  \/ PinSnapshotLoad(Contexts \cup {Unregistered})
  \/ PinSnapshotRecord(Contexts \cup {Unregistered}, Flaky)
  \/ UnpinSnapshot(Contexts, Reliable)
  \/ \E c \in Contexts \ Pinners : WorkerLeave(c)

SpecSnapshot == Init /\ [][NextSnapshot]_vars

\* pin_snapshot calls, in two steps, interleaved with commits and with the
\* picking, assigning and reporting of compact tasks.
NextWatermark ==
  \/ CommitEpoch(Pinners, {1}, Reliable)
  \/ PinSnapshotLoad(Pinners)
  \/ PinSnapshotRecord(Pinners, Reliable)
  \/ GetCompactTask(Reliable)
  \/ ApplyTrivialMove(Reliable)
  \/ Assign(Contexts \ Pinners, Reliable)
  \/ SchedSendOk
  \/ CompactorReport(Reliable)

SpecWatermark == Init /\ [][NextWatermark]_vars

\* commit_epoch alone, with every list of SSTs and a store that may refuse.
NextCommit == CommitEpochMany(Flaky)

SpecCommit == Init /\ [][NextCommit]_vars

\* ================================================================== claims
\* --------------------------------------------------- compaction (SpecSched)
NoOverlap(infos) ==
  \A i \in DOMAIN infos, j \in DOMAIN infos :
    i < j => (infos[i].r < infos[j].l \/ infos[j].r < infos[i].l)

\* C6: in the current version, for every compaction group and every level
\* >= 1, no two SSTs of the level share a user key.
C6_DisjointLevels ==
  \A g \in Groups, l \in 1..MaxLevel : NoOverlap(current_version.levels[g].levels[l])

DeltaAllInsertedIds(delta) ==
  UNION {SstIds(DeltaInserted(delta.level_deltas[g])) : g \in DOMAIN delta.level_deltas}

\* The deltas that take the SST out of the version (a trivial move removes
\* and inserts it, and does not).
RemovingDeltas(sst_id) ==
  {id \in DOMAIN hummock_version_deltas :
     sst_id \in DeltaAllRemoved(hummock_version_deltas[id])
                \ DeltaAllInsertedIds(hummock_version_deltas[id])}

\* C7: each SST id is removed from the version by at most one version delta.
C7_RemovedOnce ==
  \A sst_id \in 1..(next_sst_id - 1) : Cardinality(RemovingDeltas(sst_id)) <= 1

\* C8: assign_compaction_task on a task id that has an assignment fails with
\* CompactionTaskAlreadyAssigned and leaves the assignments, in memory and in
\* the store, as they were.
C8_AssignOnce ==
  [][(last'.op = "assign_compaction_task" /\ last'.arg \in DOMAIN compact_task_assignment)
     => /\ last'.ret = "CompactionTaskAlreadyAssigned"
        /\ compact_task_assignment' = compact_task_assignment
        /\ meta_store'.compact_task_assignment = meta_store.compact_task_assignment]_vars

\* A context was refused a task that another context holds.
C8_Witness ==
  /\ last.op = "assign_compaction_task"
  /\ last.ret = "CompactionTaskAlreadyAssigned"
  /\ last.arg \in DOMAIN compact_task_assignment
  /\ compact_task_assignment[last.arg].context_id # last.ctx

\* C9: a report_compact_task that repeats the report just answered Ok(true)
\* is answered Ok(false) and leaves the version, the deltas, the compact
\* statuses, the assignments and the store unchanged.
C9_ReportIdempotent ==
  [][(last'.op = "report_compact_task" /\ last'.prev = "OkTrue")
     => /\ last'.ret = "OkFalse"
        /\ UNCHANGED <<versioning_vars, compaction_vars, meta_store>>]_vars

\* The second of two equal reports was answered Ok(false) after the first
\* had put a new version in place.
C9_Witness ==
  /\ last.op = "report_compact_task"
  /\ last.prev = "OkTrue"
  /\ last.ret = "OkFalse"
  /\ current_version.id > FIRST_VERSION_ID + 1

\* C10: a report_compact_task by a context that is not the assignee of the
\* assigned task is answered Ok(false) and leaves the assignment, the compact
\* statuses, the version and the store unchanged.
C10_WrongReporter ==
  [][(/\ last'.op = "report_compact_task"
      /\ last'.arg \in DOMAIN compact_task_assignment
      /\ compact_task_assignment[last'.arg].context_id # last'.ctx)
     => /\ last'.ret = "OkFalse"
        /\ UNCHANGED <<versioning_vars, compaction_vars, meta_store>>]_vars

\* A context that is not the assignee was answered Ok(false), and the task is
\* still assigned to its assignee, who has received it.
C10_Witness ==
  /\ last.op = "report_compact_task"
  /\ last.ret = "OkFalse"
  /\ last.arg \in DOMAIN compact_task_assignment
  /\ compact_task_assignment[last.arg].context_id # last.ctx
  /\ \E d \in delivered : /\ d.task.task_id = last.arg
                           /\ d.ctx = compact_task_assignment[last.arg].context_id

\* ------------------------------------------------ versions (SpecVersion)
\* C1: a commit_epoch with epoch <= current_version.max_committed_epoch is
\* rejected and changes nothing; a commit_epoch that succeeds has an epoch
\* strictly greater than the committed one, which becomes the committed one.
C1_EpochMonotone ==
  [][last'.op = "commit_epoch"
     => /\ last'.arg <= current_version.max_committed_epoch
             => (last'.ret # "Ok" /\ UNCHANGED <<versioning_vars, meta_store>>)
        /\ last'.ret = "Ok"
             => /\ last'.arg > current_version.max_committed_epoch
                /\ current_version'.max_committed_epoch = last'.arg]_vars

\* After two commits, a commit_epoch of the committed epoch was rejected.
C1_Witness ==
  /\ last.op = "commit_epoch"
  /\ last.ret = "EpochRegression"
  /\ last.arg = current_version.max_committed_epoch
  /\ current_version.max_committed_epoch >= 2

\* C2: no step lowers current_version.id or max_committed_epoch; a step that
\* changes current_version raises its id by exactly 1, and so does every
\* successful commit_epoch, trivial move and report of a finished task.
C2_VersionMonotone ==
  [][/\ current_version'.id >= current_version.id
     /\ current_version'.max_committed_epoch >= current_version.max_committed_epoch
     /\ max_committed_epoch' >= max_committed_epoch
     /\ current_version' # current_version => current_version'.id = current_version.id + 1
     /\ (\/ last'.op = "commit_epoch" /\ last'.ret = "Ok"
         \/ last'.op = "get_compact_task_impl" /\ last'.ret = "Moved"
         \/ /\ last'.op = "report_compact_task" /\ last'.ret = "OkTrue"
            /\ next_sst_id' # next_sst_id)
        => current_version'.id = current_version.id + 1]_vars

\* A trivial move has just raised the id, after a commit and a report did.
C2_Witness ==
  /\ last.op = "get_compact_task_impl"
  /\ last.ret = "Moved"
  /\ current_version.id = FIRST_VERSION_ID + 3

Errors ==
  TxnErrors \cup {"InvalidSst", "EpochRegression", "CompactionTaskAlreadyAssigned"}

\* The in-memory state is the state load_meta_store_state_impl builds from
\* the store.
MemoryIsStore ==
  LET loaded == load_meta_store_state_impl(meta_store)
  IN /\ loaded.current_version = current_version
     /\ loaded.checkpoint_version = checkpoint_version
     /\ loaded.hummock_version_deltas = hummock_version_deltas
     /\ loaded.pinned_versions = pinned_versions
     /\ loaded.pinned_snapshots = pinned_snapshots
     /\ loaded.compaction_statuses = compaction_statuses
     /\ loaded.compact_task_assignment = compact_task_assignment

C11_FailedReport ==
  [][(/\ last'.op \in {"report_compact_task", "cancel_compact_task"}
      /\ last'.ret = "OkTrue"
      /\ next_sst_id' = next_sst_id)
     => /\ last'.arg \notin DOMAIN compact_task_assignment'
        /\ last'.arg \notin DOMAIN meta_store'.compact_task_assignment
        /\ \A g \in Groups : /\ last'.arg \notin DOMAIN compaction_statuses'[g]
                             /\ last'.arg \notin DOMAIN meta_store'.compact_statuses[g]
        /\ UNCHANGED <<current_version, checkpoint_version, hummock_version_deltas>>
        /\ meta_store'.version_deltas = meta_store.version_deltas
        /\ meta_store'.hummock_version = meta_store.hummock_version]_vars

\* A report of a failed task was accepted: one SST was ever
\* created, by the one commit, and the task is neither assigned nor pending.
C11_Witness ==
  /\ last.op = "report_compact_task"
  /\ last.ret = "OkTrue"
  /\ next_sst_id = 2
  /\ current_version.id = FIRST_VERSION_ID + 1
  /\ last.arg \notin DOMAIN compact_task_assignment
  /\ \A g \in Groups : last.arg \notin DOMAIN compaction_statuses[g]

\* ------------------------------------------------ commit_epoch (SpecCommit)
\* The SSTs of group g that the step adds to the current version.
NewGroupSsts(g) ==
  SstIds(GroupSsts(current_version'.levels[g])) \ SstIds(GroupSsts(current_version.levels[g]))

C13_OneSubLevelPerGroup ==
  [][(last'.op = "commit_epoch" /\ last'.ret = "Ok")
     => \A g \in Groups :
          LET old_l0 == current_version.levels[g].l0
              new_l0 == current_version'.levels[g].l0
          IN IF NewGroupSsts(g) = {} THEN new_l0 = old_l0
             ELSE /\ Len(new_l0) = Len(old_l0) + 1
                  /\ SubSeq(new_l0, 1, Len(old_l0)) = old_l0
                  /\ new_l0[Len(new_l0)].sub_level_id = last'.arg
                  /\ SstIds(new_l0[Len(new_l0)].table_infos) = NewGroupSsts(g)]_vars

\* C14: commit_epoch fails with InvalidSst exactly when a context of
\* sst_to_context is no cluster member, whatever the epoch; a commit_epoch
\* that fails with InvalidSst or for an epoch regression adds no delta and
\* leaves current_version, its id and max_committed_epoch as they were, in
\* memory and in the store.
C14_InvalidSst ==
  [][last'.op = "commit_epoch"
     => /\ (last'.ret = "InvalidSst") <=> (\E c \in last'.ctx : c \notin members)
        /\ last'.ret \in {"InvalidSst", "EpochRegression"}
             => UNCHANGED <<current_version, hummock_version_deltas, max_committed_epoch,
                            meta_store>>]_vars

\* After a successful commit, a commit_epoch of a later epoch with SSTs of a
\* member and of a context that is no member was rejected with InvalidSst.
C14_Witness ==
  /\ last.op = "commit_epoch"
  /\ last.ret = "InvalidSst"
  /\ \E c \in last.ctx : c \in members
  /\ last.arg > current_version.max_committed_epoch
  /\ current_version.id > FIRST_VERSION_ID

\* ---------------------------------------------------- pin_version (SpecPin)
\* C15: a pin_version(ctx, last_pinned) that returns Ok returns, when
\* last_pinned <= current_version.id and the delta map has last_pinned,
\* VersionDeltas with exactly the deltas of ids in (last_pinned,
\* current_version.id] in ascending id order, and PinnedVersion with the
\* current version otherwise.
C15_PinPayload ==
  [][(last'.op = "pin_version" /\ last'.ret = "Ok")
     => LET last_pinned == last'.arg
            ret == last'.out[1]
            ids == {id \in DOMAIN hummock_version_deltas :
                      id > last_pinned /\ id <= current_version.id}
        IN IF last_pinned <= current_version.id
              /\ last_pinned \in DOMAIN hummock_version_deltas
           THEN /\ ret.payload = "VersionDeltas"
                /\ Len(ret.delta) = Cardinality(ids)
                /\ \A i \in DOMAIN ret.delta :
                     /\ ret.delta[i].id \in ids
                     /\ ret.delta[i] = hummock_version_deltas[ret.delta[i].id]
                /\ \A i \in DOMAIN ret.delta, j \in DOMAIN ret.delta :
                     i < j => ret.delta[i].id < ret.delta[j].id
           ELSE /\ ret.payload = "PinnedVersion"
                /\ ret.pinned_version = current_version]_vars

\* pin_version returned the two deltas that follow the caller's version.
C15_Witness ==
  /\ last.op = "pin_version"
  /\ last.ret = "Ok"
  /\ last.out[1].payload = "VersionDeltas"
  /\ Len(last.out[1].delta) = 2
  /\ last.arg = current_version.id - 2

\* ------------------------------------------------ pin_snapshot (SpecSnapshot)
\* C16: whatever commit_epoch calls run between a pin_snapshot's load of
\* max_committed_epoch and its lock, the epoch it returns, and the one it
\* records as the context's pin, is not greater than
\* current_version.max_committed_epoch when the pin is recorded.
C16_SnapshotNotAhead ==
  [][(last'.op = "pin_snapshot" /\ last'.ret = "Ok")
     => /\ last'.out[1].epoch <= current_version'.max_committed_epoch
        /\ \A c \in DOMAIN pinned_snapshots' :
             (c \notin DOMAIN pinned_snapshots \/ pinned_snapshots'[c] # pinned_snapshots[c])
             => /\ pinned_snapshots'[c] = last'.out[1].epoch
                /\ pinned_snapshots'[c] <= current_version'.max_committed_epoch]_vars

\* A pin was recorded with an epoch loaded before a commit that came
\* between: the recorded epoch is behind the committed one.
C16_Witness ==
  /\ last.op = "pin_snapshot"
  /\ last.ret = "Ok"
  /\ last.ctx \in DOMAIN pinned_snapshots
  /\ pinned_snapshots[last.ctx] = last.out[1].epoch
  /\ last.out[1].epoch < current_version.max_committed_epoch

C18_TrivialMoveLoop ==
  [][/\ (last'.op = "get_compact_task_impl" /\ last'.ret = "Moved")
        => LET task == sched.task
               cg == task.compaction_group_id
               delta == hummock_version_deltas'[current_version'.id]
           IN /\ is_trivial_move_task(task)
              /\ current_version'.id = current_version.id + 1
              /\ delta.trivial_move
              /\ DeltaInserted(delta.level_deltas[cg]) = task.input_ssts[1].table_infos
              /\ DeltaRemovedIds(delta.level_deltas[cg]) = SstIds(task.input_ssts[1].table_infos)
              /\ LET moved == task.input_ssts[1].table_infos[1]
                 IN /\ \E i \in DOMAIN current_version'.levels[cg].levels[task.target_level] :
                         current_version'.levels[cg].levels[task.target_level][i] = moved
                    /\ \A i \in DOMAIN current_version'.levels[cg].levels[task.input_ssts[1].level_idx] :
                         current_version'.levels[cg].levels[task.input_ssts[1].level_idx][i] # moved
              /\ UNCHANGED compaction_vars
              /\ meta_store'.compact_statuses = compaction_statuses
              /\ meta_store'.compact_task_assignment = compact_task_assignment
              /\ task.task_id \notin DOMAIN compact_task_assignment'
              /\ \A g \in Groups :
                   /\ task.task_id \notin DOMAIN compaction_statuses'[g]
                   /\ PendingSsts(compaction_statuses'[g]) \cap TaskInputIds(task) = {}
              /\ sched'.pc = "repick"
              /\ sched'.moved = sched.moved + 1
     /\ (sched.pc = "repick" /\ sched' # sched)
        => last'.op \in {"get_compact_task", "get_compact_task_impl"}
     /\ (last'.op = "get_compact_task" /\ last'.ret = "Some")
        => /\ ~is_trivial_move_task(sched'.task)
           /\ sched'.task.task_id \in DOMAIN compaction_statuses'[sched'.task.compaction_group_id]
     /\ (last'.op = "get_compact_task" /\ last'.ret \in {"Some", "None"})
        => sched'.moved = 0]_vars

\* get_compact_task applied a trivial move, drove the picker again and
\* returned None: the move is the last delta, and nothing is assigned.
C18_Witness ==
  /\ last.op = "get_compact_task"
  /\ last.ret = "None"
  /\ last.arg = 1
  /\ hummock_version_deltas[current_version.id].trivial_move
  /\ compact_task_assignment = EmptyMap

\* The task of the trivial move the scheduler's call has in hand, as a
\* compactor would report it: finished, with the input SST as its output.
ReportedAsCompacted(task) ==
  [task EXCEPT !.sorted_output_ssts = task.input_ssts[1].table_infos, !.task_status = TRUE]

\* A trivial move leaves the version and the delta that a successful report
\* of the same task, with the input SST as output, would leave.
C19_SameVersionAndDelta ==
  [][(last'.op = "get_compact_task_impl" /\ last'.ret = "Moved")
     => /\ current_version' = ReportVersion(ReportedAsCompacted(sched.task), current_version)
        /\ hummock_version_deltas'[current_version'.id]
             = ReportDelta(current_version, ReportedAsCompacted(sched.task))]_vars

\* C19: a trivial move leaves the version (levels, id, safe_epoch,
\* max_committed_epoch) that a successful report of the same task, with the
\* input SST as output, would leave; its delta equals the delta of that
\* report in everything but trivial_move, which is true for the move and
\* false for the report.
C19_SameVersionDeltaButFlag ==
  [][(last'.op = "get_compact_task_impl" /\ last'.ret = "Moved")
     => LET reported == ReportedAsCompacted(sched.task)
            moved == hummock_version_deltas'[current_version'.id]
        IN /\ current_version' = ReportVersion(reported, current_version)
           /\ moved.trivial_move
           /\ ~ReportDelta(current_version, reported).trivial_move
           /\ [moved EXCEPT !.trivial_move = FALSE] = ReportDelta(current_version, reported)]_vars

\* A trivial move has been applied: the SST sits in the target level of the
\* new version.
C19_Witness ==
  /\ last.op = "get_compact_task_impl"
  /\ last.ret = "Moved"
  /\ sched.pc = "repick"
  /\ hummock_version_deltas[current_version.id].trivial_move
  /\ \E g \in Groups : current_version.levels[g].levels[MaxLevel] # <<>>

\* ------------------------------------------------ restart (SpecVersion)
\* C20: when HummockManager::new has completed, every task pending in a
\* compact_status has an entry in compact_task_assignment, in memory and in
\* the store: new keeps the pending tasks of the store that are assigned,
\* with their reserved inputs, and cancels the others, whose inputs are
\* reserved no more.
C20_NoOrphanAfterNew ==
  [][last'.op = "new"
     => /\ \A g \in Groups :
             /\ DOMAIN compaction_statuses'[g] \subseteq DOMAIN compact_task_assignment'
             /\ DOMAIN meta_store'.compact_statuses[g]
                  \subseteq DOMAIN meta_store'.compact_task_assignment
             /\ compaction_statuses'[g] = meta_store'.compact_statuses[g]
             /\ \A t \in DOMAIN meta_store.compact_statuses[g] :
                  IF t \in DOMAIN meta_store.compact_task_assignment
                  THEN /\ t \in DOMAIN compaction_statuses'[g]
                       /\ compaction_statuses'[g][t] = meta_store.compact_statuses[g][t]
                  ELSE /\ t \notin DOMAIN compaction_statuses'[g]
                       /\ \A u \in DOMAIN compaction_statuses'[g] :
                            compaction_statuses'[g][u] = meta_store.compact_statuses[g][u]
        /\ compact_task_assignment' = meta_store.compact_task_assignment
        /\ meta_store'.compact_task_assignment = meta_store.compact_task_assignment
        /\ last'.arg = Cardinality(UNION {DOMAIN meta_store.compact_statuses[g]
                                            \ DOMAIN meta_store.compact_task_assignment :
                                          g \in Groups})]_vars

\* new has cancelled a task that was picked and never assigned.
C20_Witness ==
  /\ last.op = "new"
  /\ last.arg > 0
  /\ \A g \in Groups : compaction_statuses[g] = EmptyMap
  /\ next_task_id > 1

\* ------------------------------------------------ leader key (SpecLeader)
\* C21: once the leader key of the store differs from this node's leader
\* info, no step of the manager changes the meta store, and no operation of
\* a constructed manager changes its in-memory state.
C21_LeaderFenced ==
  [][meta_store.leader # LeaderInfo
     => /\ meta_store' = meta_store
        /\ Constructed => UNCHANGED <<versioning_vars, compaction_vars>>]_vars

\* -------------------------------------------- request channel (SpecChannel)
\* How often a group is in the request queue.
QueuedTimes(queue, g) == Cardinality({i \in DOMAIN queue : queue[i] = g})

\* C22: try_send(g) returns false and enqueues nothing while g is scheduled;
\* when g is not scheduled, as after unschedule(g), and the scheduler runs,
\* it returns true and puts g at the end of the queue; whatever the order of
\* try_send, recv and unschedule, no group is in the queue more than once.
C22_RequestOnce ==
  [][/\ last'.op = "try_send"
        => IF last'.arg \in request_channel.scheduled
           THEN last'.ret = "false" /\ UNCHANGED request_channel
           ELSE request_channel.closed
                \/ /\ last'.ret = "true"
                   /\ request_channel'.queue = Append(request_channel.queue, last'.arg)
                   /\ last'.arg \in request_channel'.scheduled
     /\ last'.op = "unschedule" => last'.arg \notin request_channel'.scheduled
     /\ \A g \in RequestGroups :
          /\ QueuedTimes(request_channel'.queue, g) <= 1
          /\ QueuedTimes(request_channel'.queue, g) = 1 => g \in request_channel'.scheduled]_vars

\* try_send was refused for the group the scheduler is picking for, while
\* the other group waits in the queue.
C22_Witness ==
  /\ last.op = "try_send"
  /\ last.ret = "false"
  /\ last.arg = request_channel.compaction_group
  /\ request_channel.queue # <<>>
  /\ \A i \in DOMAIN request_channel.queue : request_channel.queue[i] # last.arg

\* ------------------------------------------------ S3 upload (SpecUpload)
\* When finish has returned an error the multipart upload is aborted and no
\* object is visible under the key; when it has returned Ok the object is
\* visible and holds all written bytes.
C23_AbortedOnError ==
  /\ uploader.result \notin {"-", "Ok"}
     => s3.upload = "aborted" /\ ~s3.object.visible
  /\ uploader.result = "Ok"
     => s3.object.visible /\ s3.object.data = uploader.written

\* C23: when finish has returned an error no object is visible under the
\* key, and the multipart upload is aborted unless the error is the one of
\* the abort request itself, which leaves the upload open; when finish has
\* returned Ok the object is visible and holds all written bytes.
C23_NotVisibleOnError ==
  /\ uploader.result \notin {"-", "Ok"} => ~s3.object.visible
  /\ uploader.result \in {"EmptyObject", "PutError", "UploadPartError", "CompleteError"}
     => s3.upload = "aborted"
  /\ uploader.result = "AbortError" => s3.upload = "open"
  /\ uploader.result = "Ok"
     => /\ s3.object.visible
        /\ s3.object.data = uploader.written
        /\ s3.upload \in {"aborted", "completed"}

\* finish returned the error of a part upload, with another part stored:
\* the upload is aborted.
C23_Witness ==
  /\ uploader.result = "UploadPartError"
  /\ s3.parts # EmptyMap
  /\ s3.upload = "aborted"
  /\ ~s3.object.visible

\* C24: every part the uploader sends has at least MIN_PART_SIZE bytes: a
\* part sent from write_bytes has more than part_size bytes, and when one
\* has been sent at least MIN_PART_SIZE bytes stay in the buffer for the
\* part that finish sends.
C24_PartSize ==
  LET handles == uploader.join_handles
      from_write == IF uploader.state = "open" THEN DOMAIN handles
                    ELSE DOMAIN handles \ {Len(handles)}
  IN /\ \A i \in DOMAIN handles :
          /\ handles[i].len = SumLen(handles[i].data)
          /\ handles[i].len >= MIN_PART_SIZE
     /\ \A i \in from_write : handles[i].len > uploader.part_size
     /\ (uploader.state = "open" /\ handles # <<>>)
        => /\ uploader.not_uploaded_len >= MIN_PART_SIZE
           /\ uploader.not_uploaded_len = SumLen(uploader.buf)

\* finish has sent the third part, after two parts sent from write_bytes.
C24_Witness ==
  /\ uploader.state = "joining"
  /\ Len(uploader.join_handles) = 3
  /\ uploader.join_handles[3].len < uploader.part_size

\* The data of the part uploads in the order they were spawned.
RECURSIVE HandlesData(_)
HandlesData(handles) ==
  IF handles = <<>> THEN <<>> ELSE Head(handles).data \o HandlesData(Tail(handles))

\* C25: the parts have the ids 1, 2, ... in the order they are cut from the
\* written bytes; whatever order the part uploads end in, a stored part
\* holds the bytes cut for its id, the parts in ascending id followed by the
\* buffer are the arguments of write_bytes in call order, and the completed
\* object is exactly those.
C25_PartOrder ==
  LET handles == uploader.join_handles
  IN /\ \A i \in DOMAIN handles : handles[i].part_id = MIN_PART_ID + i - 1
     /\ \A id \in DOMAIN s3.parts :
          /\ id - MIN_PART_ID + 1 \in DOMAIN handles
          /\ s3.parts[id] = handles[id - MIN_PART_ID + 1].data
     /\ uploader.state = "open" => HandlesData(handles) \o uploader.buf = uploader.written
     /\ uploader.state = "joining" => HandlesData(handles) = uploader.written
     /\ s3.upload = "completed"
        => /\ s3.object.visible
           /\ s3.object.data = uploader.written
           /\ s3.object.data = HandlesData(handles)

\* An upload of three parts is completed.
C25_Witness ==
  /\ s3.upload = "completed"
  /\ Len(uploader.join_handles) = 3
  /\ uploader.result = "Ok"
  /\ Len(s3.object.data) = MaxWrites

\* ------------------------------------------------ SstableStore (SpecStore)
PutOps == {"put_sst", "finish_put_sst_stream"}
BlockKeys(sst_id) == {<<sst_id, i>> : i \in BlockIndexes}

\* When the upload of the meta has failed in put_sst or in
\* finish_put_sst_stream, the data object is deleted when the error is
\* returned and the meta cache has no entry of the SST.
C26_DataDeletedOnMetaFailure ==
  (last.op \in PutOps /\ last.ret \in {"MetaError", "DeleteError"})
  => /\ last.arg \notin DOMAIN sstable_store.data
     /\ last.arg \notin sstable_store.meta_cache

\* C26: when the upload of the meta has failed in put_sst or in
\* finish_put_sst_stream, nothing of the SST is in the meta cache or in the
\* block cache and no meta object is stored; the data object is deleted
\* when the error returned is the one of the meta upload, and is still
\* stored when the delete has failed and its error is returned instead.
C26_CleanupUnlessDeleteFails ==
  /\ (last.op \in PutOps /\ last.ret \in {"MetaError", "DeleteError"})
     => /\ last.arg \notin sstable_store.meta_cache
        /\ last.arg \notin DOMAIN sstable_store.meta
        /\ last.arg \notin sstable_store.sstables
        /\ \A key \in BlockKeys(last.arg) : ~Cached(sstable_store.block_cache, key)
  /\ (last.op \in PutOps /\ last.ret = "MetaError")
     => last.arg \notin DOMAIN sstable_store.data
  /\ (last.op \in PutOps /\ last.ret = "DeleteError")
     => last.arg \in DOMAIN sstable_store.data

\* put_sst with Fill has returned the error of the meta upload while the
\* other SST is stored.
C26_Witness ==
  /\ last.op = "put_sst"
  /\ last.ret = "MetaError"
  /\ last.prev = "Fill"
  /\ last.arg \notin DOMAIN sstable_store.data
  /\ sstable_store.sstables # {}

\* C27: once delete of an SST has succeeded, the meta cache, the block
\* cache and the tiered cache hold no entry of the SST, and a get of any of
\* its blocks returns NotFound under every policy.
C27_PurgedAfterDelete ==
  \A sst_id \in sstable_store.deleted :
    /\ sst_id \notin sstable_store.meta_cache
    /\ \A key \in BlockKeys(sst_id) :
         /\ ~Cached(sstable_store.block_cache, key)
         /\ ~Cached(sstable_store.tiered_cache, key)
    /\ (last.op = "get" /\ last.arg = sst_id) => last.ret = "NotFound"

\* C28: a get with NotFill of a block that a get with Fill has returned
\* returns the same block from the block cache while the block is there,
\* and from the tiered cache while it is there and not in the block cache;
\* a block that leaves the block cache is in the tiered cache afterwards,
\* with the same bytes.
C28_CacheRoundTrip ==
  [][/\ \A key \in DOMAIN sstable_store.filled :
          (/\ last'.op = "get" /\ last'.prev = "NotFill"
           /\ <<last'.arg, last'.out[1]>> = key
           /\ Cached(sstable_store.block_cache, key) \/ Cached(sstable_store.tiered_cache, key))
          => /\ last'.ret = "Ok"
             /\ last'.out[3] = sstable_store.filled[key]
             /\ last'.out[2] = IF Cached(sstable_store.block_cache, key)
                               THEN "block_cache" ELSE "tiered_cache"
     /\ \A sst_id \in StoreSstIds : \A key \in BlockKeys(sst_id) :
          (Cached(sstable_store.block_cache, key) /\ ~Cached(sstable_store'.block_cache, key))
          => /\ Cached(sstable_store'.tiered_cache, key)
             /\ BlockDecodeFromRaw(CachedValue(sstable_store'.tiered_cache, key))
                  = CachedValue(sstable_store.block_cache, key)
    ]_vars

\* A get with NotFill has returned, from the tiered cache, the block a get
\* with Fill had returned and the block cache has evicted.
C28_Witness ==
  /\ last.op = "get"
  /\ last.prev = "NotFill"
  /\ last.ret = "Ok"
  /\ last.out[2] = "tiered_cache"
  /\ <<last.arg, last.out[1]>> \in DOMAIN sstable_store.filled
  /\ last.out[3] = sstable_store.filled[<<last.arg, last.out[1]>>]
  /\ ~Cached(sstable_store.block_cache, <<last.arg, last.out[1]>>)

\* ------------------------------------------------- Compactor (SpecMerge)
\* The newest version of its user key among those the watermark sees.
NewestVisible(input, e, watermark) ==
  /\ e.epoch <= watermark
  /\ \A i \in DOMAIN input :
       (input[i].user_key = e.user_key /\ input[i].epoch <= watermark)
       => input[i].epoch <= e.epoch

\* C29: with no compaction filter and no right bound, the merge adds to the
\* builder, in the order of the input, exactly the versions with an epoch
\* above the watermark and, for each user key, the newest version with an
\* epoch at or below the watermark unless gc_delete_keys is set and that
\* version is a tombstone.
C29_MergeOutput ==
  (merge.done /\ merge.filter = {} /\ merge.kr_right = NoKey)
  => merge.output =
       SelectSeq(merge.input,
                 LAMBDA e : \/ e.epoch > merge.watermark
                            \/ /\ NewestVisible(merge.input, e, merge.watermark)
                               /\ ~(merge.gc_delete_keys /\ e.is_delete))

\* k1@15 put, k1@10 tombstone, k1@5 put, watermark 12, gc_delete_keys: only
\* k1@15 is added.
C29_Witness ==
  /\ merge.done /\ merge.filter = {} /\ merge.kr_right = NoKey
  /\ merge.input = <<[user_key |-> 1, epoch |-> 15, is_delete |-> FALSE],
                     [user_key |-> 1, epoch |-> 10, is_delete |-> TRUE],
                     [user_key |-> 1, epoch |-> 5, is_delete |-> FALSE]>>
  /\ merge.watermark = 12
  /\ merge.gc_delete_keys
  /\ merge.output = <<[user_key |-> 1, epoch |-> 15, is_delete |-> FALSE]>>

\* --------------------------------------------- Compactor (SpecCompactor)
\* The tasks compact has returned from.
Handled == IF compaction.state = "done" THEN 1..compaction.task_id
           ELSE 1..(compaction.task_id - 1)
ReportsOf(task_id) == SelectSeq(compaction.reports, LAMBDA r : r.task_id = task_id)

\* The report of the task compact has just returned from: made when no
\* runner was running, successful iff every split succeeded, with the
\* outputs of the splits in ascending split index.
ReportMatchesRunners(r) ==
  /\ r.running = {}
  /\ r.task_status = (\A i \in DOMAIN compaction.runners : compaction.runners[i] = "ok")
  /\ r.sorted_output_ssts = Flatten(compaction.output_ssts)
  /\ \A j, k \in DOMAIN compaction.output_ssts :
       j < k => compaction.output_ssts[j][1] < compaction.output_ssts[k][1]
  /\ {compaction.output_ssts[j][1] : j \in DOMAIN compaction.output_ssts}
       = {i - 1 : i \in {i \in DOMAIN compaction.runners : compaction.runners[i] = "ok"}}

\* C30: every task compact has returned from has been reported exactly
\* once, after all its split runners had ended, with task_status true iff
\* every split succeeded and the outputs in ascending split index.
C30_ReportedOnce ==
  /\ \A task_id \in Handled : Len(ReportsOf(task_id)) = 1
  /\ compaction.state = "done"
     => /\ ReportsOf(compaction.task_id) # <<>>
        /\ ReportMatchesRunners(ReportsOf(compaction.task_id)[1])

\* -------------------------------------- LocalVersionManager (SpecLocal)
\* C31: the id of the cached pinned version never decreases; the cached
\* version changes only to a version of a strictly greater id, in a call
\* that returns Some, and a call that returns None leaves it as it is; the
\* cached version is always the one a chain of deltas gives, each applied
\* to the version of its prev_id.
C31_PinnedVersionMonotone ==
  [][/\ local_version'.pinned_version.id >= local_version.pinned_version.id
     /\ local_version'.pinned_version # local_version.pinned_version
        => /\ local_version'.pinned_version.id > local_version.pinned_version.id
           /\ last'.op = "try_update_pinned_version" /\ last'.ret = "Some"
     /\ (last'.op = "try_update_pinned_version" /\ last'.ret = "None")
        => local_version'.pinned_version = local_version.pinned_version
     /\ local_version'.pinned_version = LocalVersionOf(local_version'.pinned_version.id)
     /\ \A t \in LocalThreads :
          local_version'.calls[t].pc = "checked"
          => local_version'.calls[t].newly_pinned_version
               = LocalVersionOf(local_version'.calls[t].newly_pinned_version.id)
    ]_vars

\* A call that had passed the first check is refused by the check under the
\* write lock: another thread has installed a version in between.
C31_Witness ==
  /\ last.op = "try_update_pinned_version"
  /\ last.ret = "None"
  /\ last.out = <<"write">>
  /\ local_version.pinned_version.id >= last.arg
  /\ local_version.pinned_version.id > FIRST_VERSION_ID

\* ------------------------------------------- watermark (SpecWatermark)
\* The contexts that hold a valid pinned snapshot.
ValidPinned == {c \in DOMAIN pinned_snapshots : pinned_snapshots[c] # INVALID_EPOCH}

\* C32: the watermark of the task the scheduler holds and of every assigned
\* task, and the safe_epoch of the current version, are at most the
\* minimal_pinned_snapshot of every context with a valid pinned snapshot.
C32_WatermarkBelowPins ==
  \A c \in ValidPinned :
    /\ sched.pc # "idle" => sched.task.watermark <= pinned_snapshots[c]
    /\ \A t \in DOMAIN compact_task_assignment :
         compact_task_assignment[t].compact_task.watermark <= pinned_snapshots[c]
    /\ current_version.safe_epoch <= pinned_snapshots[c]

\* ------------------------------------------------ scheduler (SpecAssign)
\* In SpecAssign the only call of the send_task loop that can fail on its
\* transaction is assign_compaction_task.
AssignFailed == sched.pc = "send_task" /\ last'.op = "txn" /\ last' # last

\* C33: when assign_compaction_task fails with InvalidContext the loop goes
\* on with the same task, and when it fails with any other error
\* pick_and_assign returns.
C33_OtherErrorsAbort ==
  [][AssignFailed
     => IF last'.ret = "InvalidContext"
        THEN sched'.pc = "send_task" /\ sched'.task = sched.task
        ELSE sched'.pc = "idle"]_vars

\* ------------------------------------------- trivial move (SpecWatermark)
\* The step that applies a trivial move.
TrivialMoved ==
  sched.pc = "trivial" /\ last'.op = "get_compact_task_impl" /\ last'.ret = "Moved"

\* C34: a trivial move is applied to the version as it is under the
\* versioning write lock: the new version is its successor, keeps every L0
\* sub-level and every SST of it, whether or not commit_epoch added them after
\* the picker read the version, and holds the moved SST in the target level.
C34_TrivialMoveOnNewestVersion ==
  [][TrivialMoved
     => LET task == sched.task
            cg == task.compaction_group_id
        IN /\ current_version'.id = current_version.id + 1
           /\ \A g \in Groups : current_version'.levels[g].l0 = current_version.levels[g].l0
           /\ VersionSstIds(current_version') = VersionSstIds(current_version)
           /\ SstIds(task.input_ssts[1].table_infos)
                \subseteq SstIds(LevelsSstsFrom(current_version'.levels[cg], task.target_level))
           /\ SstIds(task.input_ssts[1].table_infos)
                \cap SstIds(LevelsSstsFrom(current_version.levels[cg], task.target_level)) = {}]_vars

\* A trivial move has been applied after commit_epoch completed between the
\* picker's read and the move: the version holds the L0 sub-level the picker
\* had not seen and the SST in its new level.
C34_Witness ==
  /\ sched.pc = "repick"
  /\ last.op = "get_compact_task_impl" /\ last.ret = "Moved"
  /\ sched.current_version.id + 1 < current_version.id
  /\ \E g \in Groups :
       /\ Len(current_version.levels[g].l0) > Len(sched.current_version.levels[g].l0)
       /\ ~(SstIds(SubLevelsSsts(current_version.levels[g].l0))
              \subseteq VersionSstIds(sched.current_version))
  /\ \E g \in Groups :
       current_version.levels[g].levels # sched.current_version.levels[g].levels
  /\ VersionSstIds(sched.current_version) \subseteq VersionSstIds(current_version)

\* ------------------------------------------------------ locks (SpecLocks)
\* The thread waits for a lock that it has not been given.
Waits(t, name) == Queued(t, name)

\* t cannot be given its lock before u lets go or is served.
WaitsFor(t, u) ==
  /\ t # u
  /\ \E name \in LockNames :
       /\ Waits(t, name)
       /\ \/ Holds(u, name)
          \/ \E i, j \in DOMAIN locks.queue[name] :
               i < j /\ locks.queue[name][i].by = u /\ locks.queue[name][j].by = t

\* Threads each of which waits for another of them.
Deadlocked(D) == D # {} /\ \A t \in D : \E u \in D : WaitsFor(t, u)

\* C35: no call asks for the compaction lock, or waits for it, while it
\* holds the versioning lock, and no set of calls wait for each other.
C35_CompactionBeforeVersioning ==
  /\ \A t \in LockThreads :
       (locks.at[t].pc # 0 /\ LockStep(t).do = "lock" /\ LockStep(t).on = "compaction")
         => ~Holds(t, "versioning")
  /\ \A D \in SUBSET LockThreads : ~Deadlocked(D)

\* get_compact_task_impl holds the compaction lock and waits for the
\* versioning write lock behind a holder, while report_compact_task_impl
\* waits for the compaction lock.
C35_Witness ==
  \E t, u, w \in LockThreads :
    /\ locks.at[t].op = "get_compact_task_impl trivial move"
    /\ Holds(t, "compaction") /\ Waits(t, "versioning")
    /\ Holds(u, "versioning")
    /\ locks.at[w].op = "report_compact_task_impl finished"
    /\ Waits(w, "compaction")

\* ------------------------------------------- assigned tasks (SpecSched)
\* C36: every task that has an assignment is pending in the compact status
\* of its group, with its inputs reserved, so no SST is the input of two
\* assigned tasks; this also holds after a failed send_task, the report of
\* the task as failed and the next assignment of the same task.
C36_AssignedTasksPending ==
  /\ \A task_id \in DOMAIN compact_task_assignment :
       LET task == compact_task_assignment[task_id].compact_task
       IN /\ task_id \in DOMAIN compaction_statuses[task.compaction_group_id]
          /\ TaskInputIds(task) \subseteq PendingSsts(compaction_statuses[task.compaction_group_id])
  /\ \A t1, t2 \in DOMAIN compact_task_assignment :
       t1 # t2 => TaskInputIds(compact_task_assignment[t1].compact_task)
                    \cap TaskInputIds(compact_task_assignment[t2].compact_task) = {}

\* ------------------------------------------- termination (SpecSendTask)
\* C38: a pick_and_assign that has entered its 'send_task loop returns.
C38_PickAndAssignReturns == (sched.pc = "send_task") ~> (sched.pc = "idle")

\* --------------------------------------------- notifications (SpecNotify)
\* C39: every call that replaces current_version sends the delta of the new
\* version to the compute node, which applies it: the node that has
\* subscribed is at the id of the new version and found each prev_id equal
\* to its local id.
C39_SubscriberFollows ==
  [][(compute_node # NoSubscriber /\ current_version' # current_version)
     => (compute_node'.id = current_version'.id /\ ~compute_node'.panicked)]_vars

\* ------------------------------------------------ requests (SpecRequests)
\* commit_epoch has just added SSTs to the group in the version `id`, with
\* the scheduler running.
CommittedTo(g, id) ==
  /\ request_channel.started
  /\ last.op = "commit_epoch" /\ last.ret = "Ok"
  /\ current_version.id = id
  /\ g \in DOMAIN hummock_version_deltas[id].level_deltas

\* C37: after commit_epoch has added SSTs to a group while the scheduler
\* runs, the scheduler's get_compact_task for the group reads a version that
\* holds them.
C37_CommittedSstsArePicked ==
  \A g \in Groups, id \in FIRST_VERSION_ID..(MaxVersionId + 1) :
    CommittedTo(g, id) ~> (request_channel.seen[g] >= id)

\* ------------------------------------------- visible values (SpecMerge)
\* Epochs a reader may read at.
ReadEpochs == Min(Watermarks)..(Max(Epochs) + 1)

\* What a read of the user key at the epoch finds in a run of versions: the
\* newest version with an epoch at or below it, told by its epoch, or
\* nothing when there is none or it is a tombstone.
Absent == [found |-> FALSE, epoch |-> INVALID_EPOCH]
Value(epoch) == [found |-> TRUE, epoch |-> epoch]

Visible(versions, user_key, epoch) ==
  LET seen == {i \in DOMAIN versions :
                 versions[i].user_key = user_key /\ versions[i].epoch <= epoch}
  IN IF seen = {} THEN Absent
     ELSE LET newest == CHOOSE i \in seen : \A j \in seen : versions[j].epoch <= versions[i].epoch
          IN IF versions[newest].is_delete THEN Absent
             ELSE Value(versions[newest].epoch)

\* C40: for every user key inside the key range that the compaction filter
\* does not drop, and every read epoch at or above the watermark, a read
\* finds in the output of compact_and_build_sst what it finds in the merged
\* input.
C40_VisiblePreserved ==
  merge.done
  => \A k \in UserKeys, e \in ReadEpochs :
       (/\ merge.kr_right = NoKey \/ k < merge.kr_right
        /\ k \notin merge.filter
        /\ e >= merge.watermark)
       => Visible(merge.output, k, e) = Visible(merge.input, k, e)

\* Watermark 10 with gc_delete_keys: of k1@15, k1@10 (tombstone), k1@5 and
\* k2@10, k2@5 (tombstone) the output keeps k1@15 and k2@10.
C40_Witness ==
  /\ merge.done /\ merge.filter = {} /\ merge.kr_right = NoKey
  /\ merge.watermark = 10 /\ merge.gc_delete_keys
  /\ merge.input = <<[user_key |-> 1, epoch |-> 15, is_delete |-> FALSE],
                     [user_key |-> 1, epoch |-> 10, is_delete |-> TRUE],
                     [user_key |-> 1, epoch |-> 5, is_delete |-> FALSE],
                     [user_key |-> 2, epoch |-> 10, is_delete |-> FALSE],
                     [user_key |-> 2, epoch |-> 5, is_delete |-> TRUE]>>
  /\ merge.output = <<[user_key |-> 1, epoch |-> 15, is_delete |-> FALSE],
                      [user_key |-> 2, epoch |-> 10, is_delete |-> FALSE]>>
  /\ Visible(merge.output, 1, 12) = Absent
  /\ Visible(merge.output, 2, 12) = Value(10)

====
